---- MODULE Spec2Model ----
(***************************************************************************)
(* A model of the FLAC stream driver (flac.Stream) and of the buffered bit *)
(* reader (bits.Reader) it owns.                                           *)
(*                                                                         *)
(* The specifications share the state:                                     *)
(*   SpecBits    the bit reader over a byte source, driven by Read and     *)
(*               ReadUnary calls;                                          *)
(*   SpecReader  the bit reader with all its calls: Read, ReadUnary,       *)
(*               ReadRice, ReadAligned, EnableCRC16, EnableCRC8 and Seek;  *)
(*   SpecRound   WriteUnary and WriteBits read back by the bit reader;     *)
(*   SpecOpen    the constructors New, Parse, NewSeek, Open and ParseFile  *)
(*               up to the StreamInfo block, and Close;                    *)
(*   SpecSearch  the seek-table lookup searchFromStart;                    *)
(*   Spec        the stream driver after construction, driven by Next,     *)
(*               Frame.Parse, ParseNext and Seek calls.                    *)
(***************************************************************************)
EXTENDS Integers, Sequences, FiniteSets, TLC

VARIABLES
    src,            \* the bytes of the underlying byte source (never changes)
    chunk,          \* most bytes one Read of the underlying source delivers
    seekable,       \* whether the underlying source implements io.Seeker
    br,             \* the bits.Reader: its fields and its source's offset
    last,           \* the last call made on the reader / stream and its result
    consumed,       \* bits handed out by the reader calls so far
    frames,         \* the audio frames encoded in src after dataStart
    Info,           \* Stream.Info: the StreamInfo block
    seekTable,      \* Stream.seekTable (NoTable when nil)
    seekTableSize,  \* Stream.seekTableSize
    dataStart,      \* Stream.dataStart
    samplesDecoded, \* Stream.samplesDecoded
    pending,        \* the frame whose header Next returned and whose body is unread
    linear,         \* only Next / Frame.Parse / ParseNext were called so far
    scan,           \* what the last Seek call's makeSeekTable did
    crcFrom,        \* where each enabled CRC accumulator was enabled
    file,           \* the file handle os.Open returned: "none", "open", "closed"
    written,        \* the bitio.Writer: the bits written and what they encode
    fed             \* FeedCRC calls made on the reader so far

vars == <<src, chunk, seekable, br, last, consumed, frames, Info,
          seekTable, seekTableSize, dataStart, samplesDecoded, pending,
          linear, scan, crcFrom, file, written, fed>>

----------------------------------------------------------------------------
(* Bounds of the model.                                                    *)

\* Largest unary value written through WriteUnary.
MaxUnary == 25
\* The most FeedCRC calls made on one reader.
MaxFeeds == 1
\* The most seek points of a table handed to the lookup, and the highest
\* sample number a point starts at.
MaxPoints == 3
MaxStart == 5

\* Longest run of zero bytes in a source of the bit reader.
MaxZeros == 9
\* Most audio frames in a stream.
MaxFrames == 2
\* Largest StreamInfo.NSamples and largest Seek target.
MaxSamples == 4

----------------------------------------------------------------------------
(* Errors.                                                                 *)

nil == "nil"
EOF == "io.EOF"
ErrUnexpectedEOF == "io.ErrUnexpectedEOF"
ErrInvalidSignature == "flac.parseStreamInfo: invalid FLAC signature"
ErrNotStreamInfo == "flac.parseStreamInfo: incorrect type of first metadata block"
ErrReservedType == "meta.Block.Parse: reserved block type"
ErrInvalidType == "meta.Block.Parse: invalid block type"
ErrTooManyBits == "bit.Reader.Read: invalid number of bits"
ErrNotSeeker == "bits.Reader.Seek: underlying reader does not implement io.Seeker"
ErrSeekBeforeStart == "seek: negative position"
ErrNotAligned == "bits.Reader.ReadAligned: reader not byte-aligned"
ErrInvalidSync == "frame: invalid sync-code"
ErrChannelMismatch == "flac.Stream: channel count mismatch"
ErrSampleOverflow == "flac.Stream: decoded samples exceed StreamInfo.NSamples"
ErrSeekRange == "unable to seek to sample number"
ErrNoSeektable == "stream.searchFromStart: no seektable exists"
ErrNoSeeker == "stream.Seek: reader does not implement io.Seeker"
Panic == "panic: nil pointer dereference"

\* unexpected(err) of the meta and frame packages.
unexpected(err) == IF err = EOF THEN ErrUnexpectedEOF ELSE err

----------------------------------------------------------------------------
(* Arithmetic on bytes and on uint64 values.                               *)

Min(a, b) == IF a < b THEN a ELSE b

\* A uint64 is kept as its binary digits, most significant first, without
\* leading zeros (TLC's integers are 32 bits wide).
RECURSIVE Strip(_)
Strip(bs) == IF bs # <<>> /\ Head(bs) = 0 THEN Strip(Tail(bs)) ELSE bs

\* The low 64 bits of a digit sequence, as a uint64.
Low64(bs) ==
    Strip(IF Len(bs) > 64 THEN SubSeq(bs, Len(bs) - 63, Len(bs)) ELSE bs)

\* The w low bits of v, most significant first.
BitsOf(v, w) == [i \in 1..w |-> (v \div (2^(w - i))) % 2]

\* uint64(v) of a byte v.
U64(v) == Strip(BitsOf(v, 8))

\* x <<= w ; x |= v   for v < 2^w.
ShlOr(x, w, v) == Low64(x \o BitsOf(v, w))

\* bits.LeadingZeros8(v).
RECURSIVE LeadingZeros8(_)
LeadingZeros8(v) ==
    IF v = 0 THEN 8 ELSE IF v >= 128 THEN 0 ELSE 1 + LeadingZeros8((2 * v) % 256)

\* bits.LeadingZeros64(binary.BigEndian.Uint64(w)) for the 8 bytes w
\* (64 when all of them are zero).
RECURSIVE LeadingZeros64(_)
LeadingZeros64(w) ==
    IF w = <<>> THEN 0
    ELSE IF Head(w) # 0 THEN LeadingZeros8(Head(w))
    ELSE 8 + LeadingZeros64(Tail(w))

\* a XOR b on naturals below 2^16.
Xor(a, b) ==
    LET d(i) == ((((a \div (2^i)) % 2) + ((b \div (2^i)) % 2)) % 2) * (2^i)
    IN  d(0) + d(1) + d(2) + d(3) + d(4) + d(5) + d(6) + d(7)
        + d(8) + d(9) + d(10) + d(11) + d(12) + d(13) + d(14) + d(15)

----------------------------------------------------------------------------
(* CRC-8 (polynomial 0x07) and CRC-16 (polynomial 0x8005), one byte at a   *)
(* time, most significant bit first, as the FLAC format defines them.      *)

RECURSIVE crcShift(_, _, _, _)
crcShift(crc, top, poly, k) ==
    IF k = 0 THEN crc
    ELSE IF crc >= top
    THEN crcShift(Xor((2 * crc) % (2 * top), poly), top, poly, k - 1)
    ELSE crcShift(2 * crc, top, poly, k - 1)

\* The accumulator after the bytes of data, folded in order.  The rest of
\* the data is folded by a function of the accumulator, so that each byte is
\* folded before the next one is looked at.
RECURSIVE crc8Update(_, _)
crc8Update(crc, data) ==
    IF data = <<>> THEN crc
    ELSE LET rest[c \in Nat] == crc8Update(c, Tail(data))
         IN  rest[crcShift(Xor(crc, Head(data)), 128, 7, 8)]

RECURSIVE crc16Update(_, _)
crc16Update(crc, data) ==
    IF data = <<>> THEN crc
    ELSE LET rest[c \in Nat] == crc16Update(c, Tail(data))
         IN  rest[crcShift(Xor(crc, 256 * Head(data)), 32768, 32773, 8)]

----------------------------------------------------------------------------
(* bits.Reader.  A reader value b is a record of the Reader's fields; b.r  *)
(* is the offset of the underlying reader in src, and b.buf holds the      *)
(* bytes buf[0 .. end).                                                    *)

readBufSize == 4096

SeekStart == 0
SeekCurrent == 1
SeekEnd == 2

NewReader(off) ==
    [r |-> off, buf |-> <<>>, pos |-> 0, end |-> 0, x |-> 0, n |-> 0,
     crc16 |-> 0, crc8 |-> 0, doCRC16 |-> FALSE, doCRC8 |-> FALSE]

\* br.r.Read(p) with len(p) = space: how many bytes the source delivers
\* (none at or past its end).
srcRead(off, space) ==
    IF off >= Len(src) THEN 0 ELSE Min(Min(chunk, space), Len(src) - off)

\* fill without the move of the unread bytes to the front of the buffer.
fill_dropsUnread(b) ==
    LET b1 == IF b.pos > 0 THEN [b EXCEPT !.buf = <<>>, !.pos = 0, !.end = 0]
              ELSE b
        space == readBufSize - b1.end
        n == srcRead(b1.r, space)
    IN  [br |-> [b1 EXCEPT !.buf = SubSeq(b1.buf, 1, b1.end)
                                   \o SubSeq(src, b1.r + 1, b1.r + n),
                           !.end = b1.end + n,
                           !.r = b1.r + n],
         err |-> IF n > 0 \/ space = 0 THEN nil ELSE EOF]

fill(b) ==
    LET b1 == IF b.pos > 0
              THEN [b EXCEPT !.buf = SubSeq(b.buf, b.pos + 1, b.end),
                             !.pos = 0,
                             !.end = b.end - b.pos]
              ELSE b
        space == readBufSize - b1.end
        n == srcRead(b1.r, space)
        b2 == [b1 EXCEPT !.buf = SubSeq(b1.buf, 1, b1.end)
                                    \o SubSeq(src, b1.r + 1, b1.r + n),
                         !.end = b1.end + n,
                         !.r = b1.r + n]
    IN  [br |-> b2,
         err |-> IF n > 0 \/ space = 0 THEN nil ELSE EOF]

available(b) == b.end - b.pos

EnableCRC16(b) == [b EXCEPT !.crc16 = 0, !.doCRC16 = TRUE]

EnableCRC8(b) == [b EXCEPT !.crc8 = 0, !.doCRC8 = TRUE]

DisableCRC16(b) == [b EXCEPT !.doCRC16 = FALSE]

DisableCRC8(b) == [b EXCEPT !.doCRC8 = FALSE]

\* FeedCRC that updates the accumulators whether they are enabled or not.
FeedCRC_ignoresFlags(b, data) ==
    [b EXCEPT !.crc16 = crc16Update(b.crc16, data),
              !.crc8 = crc8Update(b.crc8, data)]

FeedCRC(b, data) ==
    [b EXCEPT !.crc16 = IF b.doCRC16 THEN crc16Update(b.crc16, data)
                        ELSE b.crc16,
              !.crc8 = IF b.doCRC8 THEN crc8Update(b.crc8, data)
                       ELSE b.crc8]

RECURSIVE needBytes(_, _)
needBytes(b, n) ==
    LET filled(f) ==
            IF f.err # nil
            THEN [br |-> f.br,
                  err |-> IF available(f.br) >= n THEN nil
                          ELSE IF available(f.br) > 0 /\ f.err = EOF
                               THEN ErrUnexpectedEOF
                               ELSE f.err]
            ELSE needBytes(f.br, n)
    IN  IF available(b) >= n THEN [br |-> b, err |-> nil]
        ELSE filled(fill(b))

\* consumeBytes that leaves the last byte it is given out of the CRCs.
consumeBytes_skipsLast(b, from, to) ==
    IF from >= to THEN b
    ELSE LET data == SubSeq(b.buf, from + 1, to - 1)
         IN  [b EXCEPT !.crc16 = IF b.doCRC16
                                 THEN crc16Update(b.crc16, data) ELSE @,
                       !.crc8 = IF b.doCRC8
                                THEN crc8Update(b.crc8, data) ELSE @]

consumeBytes(b, from, to) ==
    IF from >= to THEN b
    ELSE LET data == SubSeq(b.buf, from + 1, to)
         IN  [b EXCEPT !.crc16 = IF b.doCRC16
                                 THEN crc16Update(b.crc16, data) ELSE @,
                       !.crc8 = IF b.doCRC8
                                THEN crc8Update(b.crc8, data) ELSE @]

\* Reset that leaves the read position of the buffer where it is.
Reset_keepsPos(b) ==
    [b EXCEPT !.end = 0, !.buf = <<>>, !.x = 0, !.n = 0,
              !.crc16 = 0, !.crc8 = 0, !.doCRC16 = FALSE, !.doCRC8 = FALSE]

\* Reset that leaves the CRC accumulators enabled.
Reset_keepsCRC(b) ==
    [b EXCEPT !.pos = 0, !.end = 0, !.buf = <<>>, !.x = 0, !.n = 0,
              !.crc16 = 0, !.crc8 = 0]

Reset(b) ==
    [b EXCEPT !.pos = 0, !.end = 0, !.buf = <<>>, !.x = 0, !.n = 0,
              !.crc16 = 0, !.crc8 = 0, !.doCRC16 = FALSE, !.doCRC8 = FALSE]

\* seeker.Seek(offset, whence) of the underlying source at offset off.
srcSeek(off, offset, whence) ==
    LET to == CASE whence = SeekStart -> offset
                [] whence = SeekCurrent -> off + offset
                [] OTHER -> Len(src) + offset
    IN  IF to < 0 THEN [off |-> off, ret |-> 0, err |-> ErrSeekBeforeStart]
        ELSE [off |-> to, ret |-> to, err |-> nil]

\* Reader.Seek whose position query forgets the read-ahead.
Reader_Seek_rawPosition(b, offset, whence) ==
    IF ~seekable THEN [br |-> b, ret |-> 0, err |-> ErrNotSeeker]
    ELSE IF offset = 0 /\ whence = SeekCurrent
    THEN [br |-> b, ret |-> b.r, err |-> nil]
    ELSE LET off1 == IF whence = SeekCurrent THEN offset - available(b)
                     ELSE offset
             s == srcSeek(b.r, off1, whence)
         IN  [br |-> [Reset(b) EXCEPT !.r = s.off], ret |-> s.ret, err |-> s.err]

Reader_Seek(b, offset, whence) ==
    IF ~seekable THEN [br |-> b, ret |-> 0, err |-> ErrNotSeeker]
    ELSE IF offset = 0 /\ whence = SeekCurrent
    THEN [br |-> b, ret |-> b.r - available(b), err |-> nil]
    ELSE LET off1 == IF whence = SeekCurrent THEN offset - available(b)
                     ELSE offset
             s == srcSeek(b.r, off1, whence)
         IN  [br |-> [Reset(b) EXCEPT !.r = s.off], ret |-> s.ret, err |-> s.err]

\* The loop of Read that takes k whole bytes from the buffer into x.
RECURSIVE takeBytes(_, _, _)
takeBytes(b, x, k) ==
    IF k = 0 THEN [br |-> b, x |-> x]
    ELSE takeBytes([b EXCEPT !.pos = b.pos + 1],
                   ShlOr(x, 8, b.buf[b.pos + 1]), k - 1)

\* Read from its "Calculate bytes needed" on: n bits, with x the bits taken
\* from the partial-byte register so far.
\* The last byte of a Read with the whole byte kept in the partial-byte
\* register.
readLast_keepsWholeByte(b3, x, byte, nBits) ==
    IF nBits > 0
    THEN [br |-> [b3 EXCEPT !.n = 8 - nBits, !.x = byte],
          x |-> ShlOr(x, nBits, byte \div (2^(8 - nBits))),
          err |-> nil]
    ELSE [br |-> b3, x |-> ShlOr(x, 8, byte), err |-> nil]

\* The last byte of a Read: b3 the reader after consumeBytes, x the bits
\* taken so far, byte the byte the read ends in.
readLast(b3, x, byte, nBits) ==
    IF nBits > 0
    THEN [br |-> [b3 EXCEPT !.n = 8 - nBits, !.x = byte % (2^(8 - nBits))],
          x |-> ShlOr(x, nBits, byte \div (2^(8 - nBits))),
          err |-> nil]
    ELSE [br |-> b3, x |-> ShlOr(x, 8, byte), err |-> nil]

\* Read from its "Calculate bytes needed" on: n bits, with x0 the bits taken
\* from the partial-byte register so far.
readBuffered(b, x0, n) ==
    LET nBits == n % 8
        nBytes == (n \div 8) + (IF nBits > 0 THEN 1 ELSE 0)
        taken(oldPos, t) ==
            readLast(consumeBytes([t.br EXCEPT !.pos = t.br.pos + 1],
                                  oldPos, t.br.pos + 1),
                     t.x, t.br.buf[t.br.pos + 1], nBits)
        buffered(nb) ==
            IF nb.err # nil THEN [br |-> nb.br, x |-> <<>>, err |-> nb.err]
            ELSE taken(nb.br.pos, takeBytes(nb.br, x0, nBytes - 1))
    IN  buffered(needBytes(b, nBytes))

Read(b, n) ==
    IF n = 0 THEN [br |-> b, x |-> <<>>, err |-> nil]
    ELSE IF n > 64 THEN [br |-> b, x |-> <<>>, err |-> ErrTooManyBits]
    ELSE IF b.n > 0 /\ b.n = n
    THEN [br |-> [b EXCEPT !.n = 0], x |-> U64(b.x), err |-> nil]
    ELSE IF b.n > 0 /\ b.n > n
    THEN [br |-> [b EXCEPT !.n = b.n - n, !.x = b.x % (2^(b.n - n))],
          x |-> U64(b.x \div (2^(b.n - n))),
          err |-> nil]
    ELSE readBuffered([b EXCEPT !.n = 0],
                      IF b.n > 0 THEN U64(b.x) ELSE <<>>,
                      n - b.n)

\* io.ReadFull replaced by a single Read of the source.
srcReadFull_singleRead(off, k) ==
    LET got == IF off >= Len(src) THEN 0
               ELSE Min(Min(chunk, k), Len(src) - off)
    IN  [off |-> off + got,
         p |-> SubSeq(src, off + 1, off + got),
         err |-> IF got = 0 THEN EOF ELSE nil]

\* io.ReadFull(br.r, p) with len(p) = k > 0, the source at offset off.
srcReadFull(off, k) ==
    LET got == IF off >= Len(src) THEN 0 ELSE Min(k, Len(src) - off)
    IN  [off |-> off + got,
         p |-> SubSeq(src, off + 1, off + got),
         err |-> IF got = k THEN nil
                 ELSE IF got = 0 THEN EOF ELSE ErrUnexpectedEOF]

ReadAligned(b, k) ==
    LET n == IF available(b) > 0 THEN Min(k, available(b)) ELSE 0
        p1 == SubSeq(b.buf, b.pos + 1, b.pos + n)
        direct(b1, rf) ==
            IF rf.err # nil
            THEN [br |-> [b1 EXCEPT !.r = rf.off], p |-> p1 \o rf.p,
                  err |-> rf.err]
            ELSE [br |-> [b1 EXCEPT
                            !.r = rf.off,
                            !.crc16 = IF b.doCRC16
                                      THEN crc16Update(b1.crc16, rf.p) ELSE @,
                            !.crc8 = IF b.doCRC8
                                     THEN crc8Update(b1.crc8, rf.p) ELSE @],
                  p |-> p1 \o rf.p, err |-> nil]
        drained(b1) ==
            IF k - n = 0 THEN [br |-> b1, p |-> p1, err |-> nil]
            ELSE direct(b1, srcReadFull(b1.r, k - n))
    IN  IF b.n # 0 THEN [br |-> b, p |-> <<>>, err |-> ErrNotAligned]
        ELSE drained([consumeBytes(b, b.pos, b.pos + n)
                        EXCEPT !.pos = b.pos + n])

\* The scan loops of ReadUnary: x zeros counted so far, startPos the buffer
\* index where the current refill cycle started consuming.  path names the
\* return statement taken.
\* The return of ReadUnary on finding a set bit: b1 the reader after
\* consumeBytes, byte the byte that holds the set bit, lz the zeros before
\* it in that byte, x the zeros counted in all.
\* unaryFound that leaves the set bit in the partial-byte register.
unaryFound_keepsSetBit(b1, byte, lz, x, path) ==
    [br |-> [b1 EXCEPT !.n = 8 - lz, !.x = byte % (2^(8 - lz))],
     x |-> x, err |-> nil, path |-> path]

unaryFound(b1, byte, lz, x, path) ==
    [br |-> [b1 EXCEPT !.n = 7 - lz, !.x = byte % (2^(7 - lz))],
     x |-> x, err |-> nil, path |-> path]

RECURSIVE unaryScan(_, _, _)
unaryScan(b, x, startPos) ==
    LET word(w, lz) ==
            IF w # <<0, 0, 0, 0, 0, 0, 0, 0>>
            THEN unaryFound(consumeBytes([b EXCEPT !.pos = @ + (lz \div 8) + 1],
                                         startPos, b.pos + (lz \div 8) + 1),
                            b.buf[b.pos + (lz \div 8) + 1], lz % 8, x + lz,
                            "word")
            ELSE unaryScan([b EXCEPT !.pos = b.pos + 8], x + 64, startPos)
        tail(byte, lz) ==
            IF byte = 0
            THEN unaryScan([b EXCEPT !.pos = b.pos + 1], x + 8, startPos)
            ELSE unaryFound(consumeBytes([b EXCEPT !.pos = b.pos + 1],
                                         startPos, b.pos + 1),
                            byte, lz, x + lz, "tail")
        refilled(f) ==
            IF f.err # nil
            THEN [br |-> f.br, x |-> 0, err |-> f.err, path |-> "refill"]
            ELSE unaryScan(f.br, x, f.br.pos)
    IN  IF available(b) >= 8
        THEN word(SubSeq(b.buf, b.pos + 1, b.pos + 8),
                  LeadingZeros64(SubSeq(b.buf, b.pos + 1, b.pos + 8)))
        ELSE IF available(b) > 0
        THEN tail(b.buf[b.pos + 1], LeadingZeros8(b.buf[b.pos + 1]))
        ELSE refilled(fill(consumeBytes(b, startPos, b.pos)))

ReadUnary(b) ==
    IF b.n > 0
    THEN LET lz == LeadingZeros8((b.x * (2^(8 - b.n))) % 256)
         IN  IF lz < b.n
             THEN [br |-> [b EXCEPT !.n = b.n - (lz + 1),
                                    !.x = b.x % (2^(b.n - (lz + 1)))],
                   x |-> lz, err |-> nil, path |-> "register"]
             ELSE unaryScan([b EXCEPT !.n = 0, !.x = 0], b.n, b.pos)
    ELSE unaryScan(b, 0, b.pos)

\* low with zeros in front, k digits in all.
PadTo(low, k) == [i \in 1..(k - Len(low)) |-> 0] \o low

\* The value of at most 31 binary digits.
RECURSIVE NatOf(_)
NatOf(bs) ==
    IF bs = <<>> THEN 0 ELSE 2 * NatOf(SubSeq(bs, 1, Len(bs) - 1)) + bs[Len(bs)]

\* uint32(high<<k | low) of ReadRice, as 32 binary digits; low < 2^k.
folded32(high, k, low) ==
    LET bs == BitsOf(high, 31) \o PadTo(low, k)
    IN  PadTo(IF Len(bs) > 32 THEN SubSeq(bs, Len(bs) - 31, Len(bs)) ELSE bs, 32)

\* int32(folded>>1) ^ -int32(folded&1).
zigzag32(folded) ==
    IF folded[32] = 1 THEN -NatOf(SubSeq(folded, 1, 31)) - 1
    ELSE NatOf(SubSeq(folded, 1, 31))

\* riceLow whose slow path forgets the bits it took from the partial-byte
\* register.
riceLow_dropsRegister(b, high, k) ==
    LET return(res) == IF res.err # nil THEN [br |-> res.br, v |-> 0, err |-> res.err]
                       ELSE [br |-> res.br, v |-> zigzag32(folded32(high, k, res.x)), err |-> nil]
    IN  IF k = 0 THEN return([br |-> b, x |-> <<>>, err |-> nil])
        ELSE IF k <= b.n
        THEN return([br |-> [b EXCEPT !.n = b.n - k, !.x = b.x % (2^(b.n - k))],
                     x |-> U64(b.x \div (2^(b.n - k))), err |-> nil])
        ELSE return(readBuffered([b EXCEPT !.n = 0, !.x = IF b.n > 0 THEN 0 ELSE @],
                                 <<>>, k - b.n))

\* ReadRice from "Phase 2" on, after ReadUnary returned high.
riceLow(b, high, k) ==
    LET return(res) ==
            IF res.err # nil THEN [br |-> res.br, v |-> 0, err |-> res.err]
            ELSE [br |-> res.br, v |-> zigzag32(folded32(high, k, res.x)),
                  err |-> nil]
    IN  IF k = 0 THEN return([br |-> b, x |-> <<>>, err |-> nil])
        ELSE IF k <= b.n
        THEN return([br |-> [b EXCEPT !.n = b.n - k,
                                      !.x = b.x % (2^(b.n - k))],
                     x |-> U64(b.x \div (2^(b.n - k))),
                     err |-> nil])
        ELSE return(readBuffered([b EXCEPT !.n = 0,
                                           !.x = IF b.n > 0 THEN 0 ELSE @],
                                 IF b.n > 0 THEN U64(b.x) ELSE <<>>,
                                 k - b.n))

ReadRice(b, k) ==
    LET unary(u) ==
            IF u.err # nil THEN [br |-> u.br, v |-> 0, err |-> u.err]
            ELSE riceLow(u.br, u.x, k)
    IN  unary(ReadUnary(b))

\* bitio.Writer, as the bits written so far: WriteBits(r, n) writes the n
\* low bits of r, most significant first, and WriteByte writes eight bits.
WriteBits(out, r, n) == out \o BitsOf(r, n)

WriteByte(out, v) == out \o BitsOf(v, 8)

\* WriteUnary whose final group is one bit short.
RECURSIVE WriteUnary_shortGroup(_, _)
WriteUnary_shortGroup(out, x) ==
    IF x > 8 THEN WriteUnary_shortGroup(WriteByte(out, 0), x - 8)
    ELSE WriteBits(out, 1, x)

RECURSIVE WriteUnary(_, _)
WriteUnary(out, x) ==
    IF x > 8 THEN WriteUnary(WriteByte(out, 0), x - 8)
    ELSE WriteBits(out, 1, (x + 1) % 256)

\* bitio.Writer.Close: the bits written, padded with zeros to whole bytes.
Writer_Close(out) ==
    LET padded == out \o [i \in 1..((8 - (Len(out) % 8)) % 8) |-> 0]
    IN  [i \in 1..(Len(padded) \div 8) |->
            NatOf(SubSeq(padded, 8 * i - 7, 8 * i))]

----------------------------------------------------------------------------
(* The bit reader on its own: SpecBits.                                    *)

\* Byte sources: an optional first byte, a run of zero bytes, a tail.
Heads == {<<>>, <<16>>}
Tails == {<<>>, <<72>>, <<128, 3>>, <<1, 0, 0, 0, 0, 0, 0, 0>>}
Zeros(z) == [i \in 1..z |-> 0]
BitSources == {h \o Zeros(z) \o t : h \in Heads, z \in 0..MaxZeros, t \in Tails}

\* What one Read of the underlying source delivers at most.
Chunks == {1, 8, readBufSize}

\* The widths Read is called with.
ReadWidths == {0, 3, 8, 13, 64, 65}

NoFrame == [BlockSize |-> 0, Channels |-> 0, SampleNumber |-> 0]
\* Stream.seekTable is a pointer: nil, or a table of seek points.
NoTable == [isNil |-> TRUE, Points |-> <<>>]
Table(points) == [isNil |-> FALSE, Points |-> points]
NoScan == [ran |-> FALSE]
\* No CRC accumulator is followed: c16 and c8 are the byte offsets at which
\* CRC-16 and CRC-8 were enabled on a byte-aligned reader, -1 for none.
NoWindow == [c16 |-> -1, c8 |-> -1]
\* No bitio.Writer is in use.
NoWrite == [phase |-> "none"]

\* Bit i of the source, counted from 0, most significant bit of a byte first.
SrcBit(i) == (src[(i \div 8) + 1] \div (2^(7 - (i % 8)))) % 2

\* The n source bits from bit `from` on, as a uint64.
SrcBits(from, n) == Strip([i \in 1..n |-> SrcBit(from + i - 1)])

\* The number of zero bits from bit `from` up to the next set bit.
RECURSIVE ZerosFrom(_)
ZerosFrom(from) ==
    IF from >= 8 * Len(src) THEN 8 * Len(src) + 1
    ELSE IF SrcBit(from) = 1 THEN 0
    ELSE 1 + ZerosFrom(from + 1)

\* The logical bit position of a reader: the next bit it hands out.
BitPos(b) == 8 * (b.r - available(b)) - b.n

\* The logical byte position of a reader: the position Seek(0, SeekCurrent)
\* reports.
BytePos(b) == b.r - available(b)

BitsInit ==
    /\ src \in BitSources
    /\ chunk \in Chunks
    /\ seekable = TRUE
    /\ br = NewReader(0)
    /\ last = [op |-> "NewReader", n |-> 0, x |-> <<>>, q |-> 0, err |-> nil,
               path |-> "", at |-> 0, before |-> 0]
    /\ consumed = 0
    /\ frames = <<>>
    /\ Info = [NSamples |-> 0, NChannels |-> 0]
    /\ seekTable = NoTable
    /\ seekTableSize = 0
    /\ dataStart = 0
    /\ samplesDecoded = 0
    /\ pending = NoFrame
    /\ linear = TRUE
    /\ scan = NoScan
    /\ crcFrom = NoWindow
    /\ fed = 0
    /\ file = "none"
    /\ written = NoWrite

streamVars == <<written, fed, frames, Info, seekTable, seekTableSize,
                dataStart, samplesDecoded, pending, linear, scan>>

\* The call br.Read(n).
CallRead(n) ==
    LET return(res) ==
            /\ br' = res.br
            /\ last' = [op |-> "Read", n |-> n, x |-> res.x, q |-> 0,
                        err |-> res.err, path |-> "", at |-> consumed,
                        before |-> BitPos(br)]
            /\ consumed' = IF res.err = nil THEN consumed + n
                            ELSE BitPos(res.br)
            /\ crcFrom' = IF res.err = nil THEN crcFrom ELSE NoWindow
    IN  /\ return(Read(br, n))
        /\ UNCHANGED <<src, chunk, seekable, streamVars, file>>

\* A caller calls br.Read(n).
DoRead == \E n \in ReadWidths : CallRead(n)

\* A caller calls br.ReadUnary().
DoReadUnary ==
    LET return(res) ==
            /\ br' = res.br
            /\ last' = [op |-> "ReadUnary", n |-> 0, x |-> <<>>, q |-> res.x,
                        err |-> res.err, path |-> res.path, at |-> consumed,
                        before |-> BitPos(br)]
            /\ consumed' = IF res.err = nil THEN consumed + res.x + 1
                            ELSE BitPos(res.br)
            /\ crcFrom' = IF res.err = nil THEN crcFrom ELSE NoWindow
    IN  /\ return(ReadUnary(br))
        /\ UNCHANGED <<src, chunk, seekable, streamVars, file>>

BitsNext == DoRead \/ DoReadUnary

SpecBits == BitsInit /\ [][BitsNext]_vars

----------------------------------------------------------------------------
(* The bit reader with all its calls: SpecReader.                          *)

ReaderSources == {<<90, 0, 129, 7, 195, 109, 0, 0, 36>>}

ReaderChunks == {3, readBufSize}

\* The widths Read is called with.
ReaderWidths == {3, 16}

\* The Rice parameters ReadRice is called with.
RiceParams == {0, 2, 9, 31}

\* The lengths of the slices ReadAligned is called with.
AlignedLens == {0, 1, 2, 5}

\* The (offset, whence) pairs Seek is called with.
SeekArgs ==
    {<<0, SeekCurrent>>, <<1, SeekCurrent>>, <<-2, SeekCurrent>>,
     <<3, SeekStart>>, <<-1, SeekEnd>>}

\* The byte offsets at which the caller enables a CRC accumulator.
CRCStarts == {2}

ReaderInit ==
    /\ src \in ReaderSources
    /\ chunk \in ReaderChunks
    /\ seekable = TRUE
    /\ br = NewReader(0)
    /\ last = [op |-> "NewReader", n |-> 0, x |-> <<>>, q |-> 0, err |-> nil,
               path |-> "", at |-> 0, before |-> 0]
    /\ consumed = 0
    /\ frames = <<>>
    /\ Info = [NSamples |-> 0, NChannels |-> 0]
    /\ seekTable = NoTable
    /\ seekTableSize = 0
    /\ dataStart = 0
    /\ samplesDecoded = 0
    /\ pending = NoFrame
    /\ linear = TRUE
    /\ scan = NoScan
    /\ crcFrom = NoWindow
    /\ fed = 0
    /\ file = "none"
    /\ written = NoWrite

\* A caller calls br.Read(n) between the other calls.
DoReaderRead == \E n \in ReaderWidths : CallRead(n)

\* A caller calls br.ReadRice(k).
DoReadRice ==
    \E k \in RiceParams :
        LET return(res) ==
                /\ br' = res.br
                /\ last' = [op |-> "ReadRice", n |-> k, v |-> res.v,
                            err |-> res.err, at |-> consumed,
                            before |-> BitPos(br)]
                /\ consumed' = IF res.err = nil
                                THEN consumed + ZerosFrom(consumed) + 1 + k
                                ELSE BitPos(res.br)
                /\ crcFrom' = IF res.err = nil THEN crcFrom ELSE NoWindow
        IN  /\ return(ReadRice(br, k))
            /\ UNCHANGED <<src, chunk, seekable, streamVars, file>>

\* A caller calls br.ReadAligned(p) with len(p) = k.
DoReadAligned ==
    \E k \in AlignedLens :
        LET return(res) ==
                /\ br' = res.br
                /\ last' = [op |-> "ReadAligned", n |-> k, p |-> res.p,
                            err |-> res.err, at |-> consumed,
                            before |-> BitPos(br)]
                /\ consumed' = IF res.err = nil THEN consumed + 8 * k
                                ELSE BitPos(res.br)
                /\ crcFrom' = IF res.err = nil THEN crcFrom ELSE NoWindow
        IN  /\ return(ReadAligned(br, k))
            /\ UNCHANGED <<src, chunk, seekable, streamVars, file>>

\* A caller calls br.EnableCRC16(), on a byte boundary as the frame parser
\* does, at one of CRCStarts, while the accumulator is disabled.
DoEnableCRC16 ==
    /\ br.n = 0 /\ ~br.doCRC16 /\ BytePos(br) \in CRCStarts
    /\ br' = EnableCRC16(br)
    /\ crcFrom' = [crcFrom EXCEPT
                      !.c16 = IF br.n = 0 THEN BytePos(br) ELSE -1]
    /\ last' = [op |-> "EnableCRC16", err |-> nil]
    /\ UNCHANGED <<src, chunk, seekable, consumed, streamVars, file>>

\* A caller calls br.EnableCRC8(), on a byte boundary as the frame parser
\* does, at one of CRCStarts, while the accumulator is disabled.
DoEnableCRC8 ==
    /\ br.n = 0 /\ ~br.doCRC8 /\ BytePos(br) \in CRCStarts
    /\ br' = EnableCRC8(br)
    /\ crcFrom' = [crcFrom EXCEPT
                      !.c8 = IF br.n = 0 THEN BytePos(br) ELSE -1]
    /\ last' = [op |-> "EnableCRC8", err |-> nil]
    /\ UNCHANGED <<src, chunk, seekable, consumed, streamVars, file>>

\* A caller calls br.Seek(offset, whence); offset 0 with SeekCurrent is the
\* position query.  The caller seeks to no position past the end of the
\* source.
DoReaderSeek ==
    \E a \in SeekArgs :
        LET query == a = <<0, SeekCurrent>>
            return(res) ==
                /\ br' = res.br
                /\ last' = [op |-> "Seek", offset |-> a[1], whence |-> a[2],
                            ret |-> res.ret, err |-> res.err,
                            from |-> BytePos(br),
                            dirty |-> /\ br.n > 0 /\ available(br) > 0
                                      /\ br.doCRC16 /\ br.doCRC8]
                /\ consumed' = IF query THEN consumed
                                ELSE 8 * BytePos(res.br)
        IN  /\ a[2] = SeekCurrent => BytePos(br) + a[1] <= Len(src)
            /\ return(Reader_Seek(br, a[1], a[2]))
            /\ crcFrom' = IF query THEN crcFrom ELSE NoWindow
            /\ UNCHANGED <<src, chunk, seekable, streamVars, file>>

\* A caller calls br.Reset(): the read-ahead is dropped, so the reader goes
\* on at the offset its source stands at.
DoReset ==
    /\ br' = Reset(br)
    /\ last' = [op |-> "Reset", err |-> nil, before |-> BitPos(br)]
    /\ consumed' = 8 * br.r
    /\ crcFrom' = NoWindow
    /\ UNCHANGED <<src, chunk, seekable, streamVars, file>>

ReaderNext ==
    \/ DoReaderRead
    \/ DoReadUnary
    \/ DoReadRice
    \/ DoReadAligned
    \/ DoEnableCRC16
    \/ DoEnableCRC8
    \/ DoReaderSeek
    \/ DoReset

SpecReader == ReaderInit /\ [][ReaderNext]_vars

----------------------------------------------------------------------------
(* The CRC controls of the bit reader, SpecCRC: the accumulators are       *)
(* enabled and disabled at any point between reads, as often as a caller   *)
(* likes, and FeedCRC hands them bytes found outside the Read path.        *)

CRCSources == {<<90, 129>>}

CRCChunks == {2, readBufSize}

\* The widths Read is called with.
CRCWidths == {4, 8}

\* The bytes given to FeedCRC: the frame sync code.
FeedData == {<<255, 248>>}

CRCInit ==
    /\ src \in CRCSources
    /\ chunk \in CRCChunks
    /\ seekable = TRUE
    /\ br = NewReader(0)
    /\ last = [op |-> "NewReader", n |-> 0, x |-> <<>>, q |-> 0, err |-> nil,
               path |-> "", at |-> 0, before |-> 0]
    /\ consumed = 0
    /\ frames = <<>>
    /\ Info = [NSamples |-> 0, NChannels |-> 0]
    /\ seekTable = NoTable
    /\ seekTableSize = 0
    /\ dataStart = 0
    /\ samplesDecoded = 0
    /\ pending = NoFrame
    /\ linear = TRUE
    /\ scan = NoScan
    /\ crcFrom = NoWindow
    /\ fed = 0
    /\ file = "none"
    /\ written = NoWrite

\* What the CRC controls leave alone besides the reader itself.
crcVars == <<src, chunk, seekable, consumed, crcFrom, file, written, frames,
             Info, seekTable, seekTableSize, dataStart, samplesDecoded,
             pending, linear, scan>>

\* A caller calls br.Read(n) between the CRC controls.
DoCRCRead == \E n \in CRCWidths : CallRead(n)

\* A caller calls br.EnableCRC16() / EnableCRC8() / DisableCRC16() /
\* DisableCRC8().
DoCRCEnable16 ==
    /\ br' = EnableCRC16(br)
    /\ last' = [op |-> "EnableCRC16", err |-> nil]
    /\ UNCHANGED <<crcVars, fed>>

DoCRCEnable8 ==
    /\ br' = EnableCRC8(br)
    /\ last' = [op |-> "EnableCRC8", err |-> nil]
    /\ UNCHANGED <<crcVars, fed>>

DoDisableCRC16 ==
    /\ br' = DisableCRC16(br)
    /\ last' = [op |-> "DisableCRC16", err |-> nil]
    /\ UNCHANGED <<crcVars, fed>>

DoDisableCRC8 ==
    /\ br' = DisableCRC8(br)
    /\ last' = [op |-> "DisableCRC8", err |-> nil]
    /\ UNCHANGED <<crcVars, fed>>

\* A caller calls br.FeedCRC(data), at most MaxFeeds times.
DoFeedCRC ==
    /\ fed < MaxFeeds
    /\ \E data \in FeedData :
           /\ br' = FeedCRC(br, data)
           /\ last' = [op |-> "FeedCRC", data |-> data, err |-> nil]
    /\ fed' = fed + 1
    /\ UNCHANGED crcVars

CRCNext ==
    \/ DoCRCRead
    \/ DoReadUnary
    \/ DoCRCEnable16
    \/ DoCRCEnable8
    \/ DoDisableCRC16
    \/ DoDisableCRC8
    \/ DoFeedCRC

SpecCRC == CRCInit /\ [][CRCNext]_vars

----------------------------------------------------------------------------
(* A unary value and its low bits written through a bitio.Writer and read  *)
(* back through the bit reader: SpecRound.                                 *)

\* The unary values written.
UnaryValues == {0, 1, 8, 9, 17, MaxUnary}

\* The values written in k bits.
LowValues(k) ==
    IF k = 0 THEN {0}
    ELSE {0, 1, 2^(k - 1), 2^(k - 1) + (2^(k - 1) - 1)}

\* The bits written before the unary value.
Aligns == 0..7

RoundChunks == {1, readBufSize}

roundVars == <<chunk, seekable, br, consumed, frames, Info, seekTable,
               seekTableSize, dataStart, samplesDecoded, pending, linear,
               scan, crcFrom, file, fed>>

RoundInit ==
    /\ src = <<>>
    /\ chunk \in RoundChunks
    /\ seekable = FALSE
    /\ br = NewReader(0)
    /\ last = [op |-> "NewWriter", n |-> 0, x |-> <<>>, q |-> 0, err |-> nil,
               path |-> "", at |-> 0, before |-> 0]
    /\ consumed = 0
    /\ frames = <<>>
    /\ Info = [NSamples |-> 0, NChannels |-> 0]
    /\ seekTable = NoTable
    /\ seekTableSize = 0
    /\ dataStart = 0
    /\ samplesDecoded = 0
    /\ pending = NoFrame
    /\ linear = TRUE
    /\ scan = NoScan
    /\ crcFrom = NoWindow
    /\ fed = 0
    /\ file = "none"
    /\ \E a \in Aligns :
           written = [phase |-> "unary", out |-> WriteBits(<<>>, 2^a - 1, a),
                      align |-> a, q |-> 0, k |-> 0, r |-> 0]

\* The writing side calls WriteUnary(bw, q).
DoWriteUnary ==
    /\ written.phase = "unary"
    /\ \E q \in UnaryValues :
           written' = [written EXCEPT !.phase = "low", !.q = q,
                                      !.out = WriteUnary(written.out, q)]
    /\ last' = [last EXCEPT !.op = "WriteUnary"]
    /\ UNCHANGED <<src, roundVars>>

\* The writing side calls bw.WriteBits(r, k).
DoWriteBits ==
    /\ written.phase = "low"
    /\ \E k \in RiceParams : \E r \in LowValues(k) :
           written' = [written EXCEPT !.phase = "close", !.k = k, !.r = r,
                                      !.out = WriteBits(written.out, r, k)]
    /\ last' = [last EXCEPT !.op = "WriteBits"]
    /\ UNCHANGED <<src, roundVars>>

\* The writing side calls bw.Close(); the bytes become the reader's source.
DoWriterClose ==
    /\ written.phase = "close"
    /\ written' = [written EXCEPT !.phase = "read"]
    /\ src' = Writer_Close(written.out)
    /\ last' = [last EXCEPT !.op = "Close"]
    /\ UNCHANGED roundVars

\* The reading side skips the bits written before the unary value.
DoRoundSkip ==
    /\ written.phase = "read" /\ last.op = "Close"
    /\ CallRead(written.align)

\* The reading side calls br.ReadUnary().
DoRoundUnary ==
    /\ written.phase = "read" /\ last.op = "Read" /\ last.at = 0
    /\ DoReadUnary

\* The reading side calls br.Read(k).
DoRoundLow ==
    /\ written.phase = "read" /\ last.op = "ReadUnary"
    /\ CallRead(written.k)

RoundNext ==
    \/ DoWriteUnary
    \/ DoWriteBits
    \/ DoWriterClose
    \/ DoRoundSkip
    \/ DoRoundUnary
    \/ DoRoundLow

SpecRound == RoundInit /\ [][RoundNext]_vars

----------------------------------------------------------------------------
(* The frame codec, as far as the stream driver sees it.  A frame is a     *)
(* header, BlockSize * Channels sample bytes and a two-byte footer; the    *)
(* codec reads it through the bit reader.                                  *)

frameSyncLen == 2
frameHeaderLen == 6
frameFooterLen == 2

frameSize(BlockSize, Channels) ==
    frameHeaderLen + BlockSize * Channels + frameFooterLen

\* The index of the frame that starts at byte offset p; 0 when none does.
frameAt(p) ==
    IF \E i \in 1..Len(frames) : frames[i].off = p
    THEN CHOOSE i \in 1..Len(frames) : frames[i].off = p
    ELSE 0

frameValue(i) ==
    [BlockSize |-> frames[i].BlockSize, Channels |-> frames[i].Channels,
     SampleNumber |-> frames[i].SampleNumber]

\* frame.New: parse a frame header.
frame_New(b) ==
    LET i == frameAt(BytePos(b))
        header(sync, rest) ==
            IF rest.err # nil
            THEN [br |-> rest.br, f |-> NoFrame, err |-> unexpected(rest.err)]
            ELSE [br |-> rest.br, f |-> frameValue(i), err |-> nil]
        synced(sync) ==
            IF sync.err # nil
            THEN [br |-> sync.br, f |-> NoFrame, err |-> sync.err]
            ELSE IF i = 0
            THEN [br |-> sync.br, f |-> NoFrame, err |-> ErrInvalidSync]
            ELSE header(sync,
                        Read(sync.br, 8 * (frameHeaderLen - frameSyncLen)))
    IN  synced(Read(b, 8 * frameSyncLen))

\* Frame.Parse: read the subframes and the footer of a frame whose header
\* was parsed.
Frame_Parse(b, f) ==
    LET footer(foot) == [br |-> foot.br, err |-> unexpected(foot.err)]
        subframes(body) ==
            IF body.err # nil
            THEN [br |-> body.br, err |-> unexpected(body.err)]
            ELSE footer(Read(body.br, 8 * frameFooterLen))
    IN  subframes(ReadAligned(b, f.BlockSize * f.Channels))

\* frame.Parse: parse a whole frame.
frame_Parse(b) ==
    LET whole(h, rest) ==
            IF rest.err # nil
            THEN [br |-> rest.br, f |-> NoFrame, err |-> rest.err]
            ELSE [br |-> rest.br, f |-> h.f, err |-> nil]
        headed(h) ==
            IF h.err # nil THEN h ELSE whole(h, Frame_Parse(h.br, h.f))
    IN  headed(frame_New(b))

----------------------------------------------------------------------------
(* flac.Stream.  A stream value S is a record of the fields the calls      *)
(* change: br, samplesDecoded and seekTable; Info, seekTableSize and       *)
(* dataStart are fixed by the constructor.                                 *)

defaultSeekTableSize == 100

\* validateSampleCount that rejects a count equal to the declared total.
validateSampleCount_offByOne(S) ==
    IF Info.NSamples # 0 /\ S.samplesDecoded >= Info.NSamples
    THEN ErrSampleOverflow
    ELSE nil

\* validateSampleCount that accepts every count.
validateSampleCount_skipped(S) == nil

validateSampleCount(S) ==
    LET nsamples == Info.NSamples
    IN  IF nsamples = 0 THEN nil
        ELSE IF S.samplesDecoded > nsamples THEN ErrSampleOverflow
        ELSE nil

\* checkFrame without the channel-count check.
checkFrame_noChannelCheck(S, h) ==
    IF h.err # nil
    THEN [S |-> [S EXCEPT !.br = h.br], f |-> NoFrame, parsed |-> NoFrame,
          err |-> h.err]
    ELSE LET S1 == [S EXCEPT !.br = h.br,
                             !.samplesDecoded = @ + h.f.BlockSize]
             err == validateSampleCount(S1)
         IN  IF err # nil
             THEN [S |-> S1, f |-> NoFrame, parsed |-> h.f, err |-> err]
             ELSE [S |-> S1, f |-> h.f, parsed |-> h.f, err |-> nil]

\* checkFrame that counts the samples of a frame before its channel check.
checkFrame_countsMismatched(S, h) ==
    IF h.err # nil
    THEN [S |-> [S EXCEPT !.br = h.br], f |-> NoFrame, parsed |-> NoFrame,
          err |-> h.err]
    ELSE LET S1 == [S EXCEPT !.br = h.br,
                             !.samplesDecoded = @ + h.f.BlockSize]
             err == validateSampleCount(S1)
         IN  IF h.f.Channels # Info.NChannels
             THEN [S |-> S1, f |-> NoFrame, parsed |-> h.f,
                   err |-> ErrChannelMismatch]
             ELSE IF err # nil
             THEN [S |-> S1, f |-> NoFrame, parsed |-> h.f, err |-> err]
             ELSE [S |-> S1, f |-> h.f, parsed |-> h.f, err |-> nil]

\* The part Next and ParseNext share: the cross-checks on a parsed frame.
checkFrame(S, h) ==
    IF h.err # nil
    THEN [S |-> [S EXCEPT !.br = h.br], f |-> NoFrame, parsed |-> NoFrame,
          err |-> h.err]
    ELSE IF h.f.Channels # Info.NChannels
    THEN [S |-> [S EXCEPT !.br = h.br], f |-> NoFrame, parsed |-> h.f,
          err |-> ErrChannelMismatch]
    ELSE LET S1 == [S EXCEPT !.br = h.br,
                             !.samplesDecoded = @ + h.f.BlockSize]
             err == validateSampleCount(S1)
         IN  IF err # nil
             THEN [S |-> S1, f |-> NoFrame, parsed |-> h.f, err |-> err]
             ELSE [S |-> S1, f |-> h.f, parsed |-> h.f, err |-> nil]

Stream_Next(S) == checkFrame(S, frame_New(S.br))

Stream_ParseNext(S) == checkFrame(S, frame_Parse(S.br))

\* uint64 values near 0 and near 2^64, each written as the integer of least
\* magnitude it is congruent to modulo 2^64: 0xFFFFFFFFFFFFFFFF is -1.
\* The placeholder SampleNum of a seek point that marks an unused slot.
AllOnes == 0 - 1

\* a + b of uint64, which wraps around modulo 2^64.
u64add(a, b) == a + b

\* a >= b of uint64: a value written negative lies just below 2^64.
u64ge(a, b) == IF (a < 0) = (b < 0) THEN a >= b ELSE a < 0

\* The loop of searchFromStart with > in place of >= in its comparison.
searchLoop_strictlyAbove(points, i, prev, sampleNum) ==
    LET stop == {j \in i..Len(points) :
                    points[j].SampleNum + points[j].NSamples > sampleNum}
        first == CHOOSE j \in stop : \A k \in stop : j <= k
    IN  IF i > Len(points) THEN prev
        ELSE IF stop = {} THEN points[Len(points)]
        ELSE IF first = i THEN prev
        ELSE points[first - 1]

\* The loop of searchFromStart over points[i ..].
RECURSIVE searchLoop(_, _, _, _)
searchLoop(points, i, prev, sampleNum) ==
    IF i > Len(points) THEN prev
    ELSE IF u64ge(u64add(points[i].SampleNum, points[i].NSamples), sampleNum)
    THEN prev
    ELSE searchLoop(points, i + 1, points[i], sampleNum)

searchFromStart(S, sampleNum) ==
    IF S.seekTable.isNil THEN [point |-> <<>>, err |-> Panic]
    ELSE IF Len(S.seekTable.Points) = 0
    THEN [point |-> <<>>, err |-> ErrNoSeektable]
    ELSE [point |-> searchLoop(S.seekTable.Points, 1, S.seekTable.Points[1],
                               sampleNum),
          err |-> nil]

\* The scan loop of makeSeekTable with the absolute offset of each frame as
\* the Offset of its seek point.
RECURSIVE makeLoop_absoluteOffset(_, _, _)
makeLoop_absoluteOffset(S, sampleNum, points) ==
    LET step(off, p) ==
            IF off.err # nil THEN [S |-> S, points |-> points, err |-> off.err]
            ELSE IF p.err = EOF
            THEN [S |-> p.S, points |-> points, err |-> nil]
            ELSE IF p.err # nil
            THEN [S |-> p.S, points |-> points, err |-> p.err]
            ELSE makeLoop_absoluteOffset(
                     p.S, sampleNum + p.f.BlockSize,
                     Append(points, [SampleNum |-> sampleNum,
                                     Offset |-> off.ret,
                                     NSamples |-> p.f.BlockSize]))
    IN  step(Reader_Seek(S.br, 0, SeekCurrent), Stream_ParseNext(S))

\* The scan loop of makeSeekTable.
RECURSIVE makeLoop(_, _, _)
makeLoop(S, sampleNum, points) ==
    LET step(off, p) ==
            IF off.err # nil THEN [S |-> S, points |-> points, err |-> off.err]
            ELSE IF p.err = EOF
            THEN [S |-> p.S, points |-> points, err |-> nil]
            ELSE IF p.err # nil
            THEN [S |-> p.S, points |-> points, err |-> p.err]
            ELSE makeLoop(p.S, sampleNum + p.f.BlockSize,
                          Append(points, [SampleNum |-> sampleNum,
                                          Offset |-> off.ret - dataStart,
                                          NSamples |-> p.f.BlockSize]))
    IN  step(Reader_Seek(S.br, 0, SeekCurrent), Stream_ParseNext(S))

makeSeekTable(S) ==
    LET savedSamples == S.samplesDecoded
        restored(loop, back) ==
            [S |-> [loop.S EXCEPT !.seekTable = Table(loop.points),
                                  !.samplesDecoded = savedSamples,
                                  !.br = back.br],
             err |-> back.err]
        scanned(pos, loop) ==
            IF loop.err # nil THEN [S |-> loop.S, err |-> loop.err]
            ELSE restored(loop, Reader_Seek(loop.S.br, pos.ret, SeekStart))
        started(pos, start) ==
            IF pos.err # nil THEN [S |-> S, err |-> ErrNoSeeker]
            ELSE IF start.err # nil
            THEN [S |-> [S EXCEPT !.br = start.br], err |-> start.err]
            ELSE scanned(pos, makeLoop([S EXCEPT !.br = start.br,
                                                 !.samplesDecoded = 0],
                                       0, <<>>))
    IN  started(Reader_Seek(S.br, 0, SeekCurrent),
                Reader_Seek(S.br, dataStart, SeekStart))

\* The scan loop of Seek that leaves the landing frame counted.
RECURSIVE seekLoop_countsLanding(_, _)
seekLoop_countsLanding(S, sampleNum) ==
    LET found(p, back) ==
            [S |-> [p.S EXCEPT !.samplesDecoded = @ + p.f.BlockSize,
                               !.br = back.br],
             ret |-> p.f.SampleNumber, err |-> back.err]
        step(offset, p) ==
            IF offset.err # nil THEN [S |-> S, ret |-> 0, err |-> offset.err]
            ELSE IF p.err # nil THEN [S |-> p.S, ret |-> 0, err |-> p.err]
            ELSE IF p.f.SampleNumber + p.f.BlockSize > sampleNum
            THEN found(p, Reader_Seek(p.S.br, offset.ret, SeekStart))
            ELSE seekLoop_countsLanding(p.S, sampleNum)
    IN  step(Reader_Seek(S.br, 0, SeekCurrent), Stream_ParseNext(S))

\* The scan loop of Seek.
RECURSIVE seekLoop(_, _)
seekLoop(S, sampleNum) ==
    LET found(p, back) ==
            [S |-> [p.S EXCEPT !.samplesDecoded = p.f.SampleNumber,
                               !.br = back.br],
             ret |-> p.f.SampleNumber, err |-> back.err]
        step(offset, p) ==
            IF offset.err # nil THEN [S |-> S, ret |-> 0, err |-> offset.err]
            ELSE IF p.err # nil THEN [S |-> p.S, ret |-> 0, err |-> p.err]
            ELSE IF p.f.SampleNumber + p.f.BlockSize > sampleNum
            THEN found(p, Reader_Seek(p.S.br, offset.ret, SeekStart))
            ELSE seekLoop(p.S, sampleNum)
    IN  step(Reader_Seek(S.br, 0, SeekCurrent), Stream_ParseNext(S))

\* seekInTable without the range check on sampleNum.
seekInTable_noRangeCheck(S, sampleNum) ==
    LET found == searchFromStart(S, sampleNum)
        to == Reader_Seek(S.br, dataStart + found.point.Offset, SeekStart)
    IN  IF found.err # nil THEN [S |-> S, ret |-> 0, err |-> found.err]
        ELSE IF to.err # nil
        THEN [S |-> [S EXCEPT !.br = to.br], ret |-> 0, err |-> to.err]
        ELSE seekLoop([S EXCEPT !.br = to.br,
                                !.samplesDecoded = found.point.SampleNum],
                      sampleNum)

\* Seek after its makeSeekTable step.
seekInTable(S, sampleNum) ==
    LET isBiggerThanStream ==
            Info.NSamples # 0 /\ sampleNum >= Info.NSamples
        found == searchFromStart(S, sampleNum)
        to == Reader_Seek(S.br, dataStart + found.point.Offset, SeekStart)
    IN  IF isBiggerThanStream \/ sampleNum < 0
        THEN [S |-> S, ret |-> 0, err |-> ErrSeekRange]
        ELSE IF found.err # nil THEN [S |-> S, ret |-> 0, err |-> found.err]
        ELSE IF to.err # nil
        THEN [S |-> [S EXCEPT !.br = to.br], ret |-> 0, err |-> to.err]
        ELSE seekLoop([S EXCEPT !.br = to.br,
                                !.samplesDecoded = found.point.SampleNum],
                      sampleNum)

\* Stream.Seek that makes the seek table anew on every call.
Stream_Seek_alwaysScans(S, sampleNum) ==
    LET made(mk) ==
            [ran |-> TRUE, err |-> mk.err,
             samplesMoved |-> mk.S.samplesDecoded - S.samplesDecoded,
             posMoved |-> BytePos(mk.S.br) - BytePos(S.br)]
        scanned(mk) ==
            IF mk.err # nil
            THEN [S |-> mk.S, ret |-> 0, err |-> mk.err, made |-> made(mk)]
            ELSE [made |-> made(mk)] @@ seekInTable(mk.S, sampleNum)
    IN  IF seekTableSize > 0
        THEN scanned(makeSeekTable(S))
        ELSE [made |-> NoScan] @@ seekInTable(S, sampleNum)

\* Stream.Seek; made records what its makeSeekTable call did: its error and
\* how far it moved samplesDecoded and the reader's logical position.
Stream_Seek(S, sampleNum) ==
    LET made(mk) ==
            [ran |-> TRUE, err |-> mk.err,
             samplesMoved |-> mk.S.samplesDecoded - S.samplesDecoded,
             posMoved |-> BytePos(mk.S.br) - BytePos(S.br)]
        scanned(mk) ==
            IF mk.err # nil
            THEN [S |-> mk.S, ret |-> 0, err |-> mk.err, made |-> made(mk)]
            ELSE [made |-> made(mk)] @@ seekInTable(mk.S, sampleNum)
    IN  IF S.seekTable.isNil /\ seekTableSize > 0
        THEN scanned(makeSeekTable(S))
        ELSE [made |-> NoScan] @@ seekInTable(S, sampleNum)

----------------------------------------------------------------------------
(* The stream driver after construction: Spec.                             *)

signatureLen == 4
blockHeaderLen == 4
streamInfoLen == 34
seekPointLen == 18

\* The frames a stream is made of: block size and channel count of each.
BlockSizes == {1, 2}
FrameKinds == [BlockSize : BlockSizes, Channels : {1, 2}]
FrameShapes ==
    UNION {[1..k -> FrameKinds] : k \in 0..MaxFrames}

\* The channel counts a StreamInfo block declares.
DeclaredChannels == {2}

StreamChunks == {7}

\* The frames of the given shapes laid out from byte offset off on, the
\* first one starting at sample number sample.
RECURSIVE layout(_, _, _)
layout(shapes, off, sample) ==
    IF shapes = <<>> THEN <<>>
    ELSE LET k == Head(shapes)
         IN  <<[off |-> off, BlockSize |-> k.BlockSize,
                Channels |-> k.Channels, SampleNumber |-> sample]>>
             \o layout(Tail(shapes),
                       off + frameSize(k.BlockSize, k.Channels),
                       sample + k.BlockSize)

\* The length of the metadata: signature, StreamInfo block and, when the
\* stream holds one, a SeekTable block of npoints seek points.
metaLen(hasTable, npoints) ==
    signatureLen + blockHeaderLen + streamInfoLen
    + (IF hasTable THEN blockHeaderLen + seekPointLen * npoints ELSE 0)

\* The seek table of a SeekTable block that lists the frames I of fr, in
\* stream order.
RECURSIVE tableOf(_, _, _)
tableOf(fr, I, i) ==
    IF i > Len(fr) THEN <<>>
    ELSE (IF i \in I
          THEN <<[SampleNum |-> fr[i].SampleNumber,
                  Offset |-> fr[i].off - fr[1].off,
                  NSamples |-> fr[i].BlockSize]>>
          ELSE <<>>)
         \o tableOf(fr, I, i + 1)

RECURSIVE streamLen(_)
streamLen(fr) ==
    IF fr = <<>> THEN 0
    ELSE frameSize(Head(fr).BlockSize, Head(fr).Channels) + streamLen(Tail(fr))

\* The number of samples the frames fr hold.
RECURSIVE streamSamples(_)
streamSamples(fr) ==
    IF fr = <<>> THEN 0 ELSE Head(fr).BlockSize + streamSamples(Tail(fr))

NoCall ==
    [op |-> "open", arg |-> 0, err |-> nil, f |-> NoFrame, parsed |-> NoFrame,
     ret |-> 0]

\* The state New (seek = FALSE) or NewSeek (seek = TRUE) leaves behind on a
\* stream of the given frames; Parse leaves the same fields as New.  A
\* stream that carries a SeekTable block is taken to be an encoder's output:
\* its seek points are frames of the stream.
Init ==
    \E shapes \in FrameShapes, N \in 0..MaxSamples, ch \in DeclaredChannels,
       seek \in BOOLEAN, hasTable \in BOOLEAN, I \in SUBSET (1..MaxFrames),
       c \in StreamChunks :
        LET start == metaLen(hasTable, Cardinality(I))
            fr == layout(shapes, start, 0)
        IN  /\ I \subseteq 1..Len(shapes)
            /\ hasTable => seek
            /\ ~hasTable => I = {}
            /\ frames = fr
            /\ src = Zeros(start + streamLen(fr))
            /\ chunk = c
            /\ seekable = seek
            /\ br = NewReader(start)
            /\ Info = [NSamples |-> N, NChannels |-> ch]
            /\ seekTable = IF hasTable THEN Table(tableOf(fr, I, 1)) ELSE NoTable
            /\ seekTableSize = IF seek THEN defaultSeekTableSize ELSE 0
            /\ dataStart = IF seek THEN start ELSE 0
            /\ samplesDecoded = 0
            /\ pending = NoFrame
            /\ linear = TRUE
            /\ scan = NoScan
            /\ last = NoCall
            /\ consumed = 0
            /\ crcFrom = NoWindow
            /\ fed = 0
            /\ file = "none"
            /\ written = NoWrite

Stream == [br |-> br, samplesDecoded |-> samplesDecoded, seekTable |-> seekTable]

fixedVars == <<src, chunk, seekable, consumed, frames, Info, seekTableSize,
               dataStart, crcFrom, file, written, fed>>

\* After an error other than io.EOF the position is indeterminate, and the
\* caller makes no frame call until a Seek succeeded; the body of a frame
\* whose header Next returned is parsed before the next frame is asked for.
mayCallFrame == last.err \in {nil, EOF} /\ pending = NoFrame

\* A caller calls stream.Next().
DoNext ==
    LET return(res) ==
            /\ br' = res.S.br
            /\ samplesDecoded' = res.S.samplesDecoded
            /\ pending' = res.f
            /\ last' = [op |-> "Next", arg |-> 0, err |-> res.err,
                        f |-> res.f, parsed |-> res.parsed, ret |-> 0]
    IN  /\ mayCallFrame
        /\ return(Stream_Next(Stream))
        /\ scan' = NoScan
        /\ UNCHANGED <<fixedVars, seekTable, linear>>

\* A caller calls Parse() on the frame the last Next call returned.
DoFrameParse ==
    LET return(res) ==
            /\ br' = res.br
            /\ last' = [op |-> "Frame.Parse", arg |-> 0, err |-> res.err,
                        f |-> NoFrame, parsed |-> NoFrame, ret |-> 0]
    IN  /\ pending # NoFrame
        /\ last.op = "Next" /\ last.err = nil
        /\ return(Frame_Parse(br, pending))
        /\ pending' = NoFrame
        /\ scan' = NoScan
        /\ UNCHANGED <<fixedVars, seekTable, samplesDecoded, linear>>

\* A caller calls stream.ParseNext().
DoParseNext ==
    LET return(res) ==
            /\ br' = res.S.br
            /\ samplesDecoded' = res.S.samplesDecoded
            /\ last' = [op |-> "ParseNext", arg |-> 0, err |-> res.err,
                        f |-> res.f, parsed |-> res.parsed, ret |-> 0]
    IN  /\ mayCallFrame
        /\ return(Stream_ParseNext(Stream))
        /\ pending' = NoFrame
        /\ scan' = NoScan
        /\ UNCHANGED <<fixedVars, seekTable, linear>>

\* A caller calls stream.Seek(sampleNum).
DoSeek ==
    \E sampleNum \in 0..MaxSamples :
        LET return(res) ==
                /\ br' = res.S.br
                /\ samplesDecoded' = res.S.samplesDecoded
                /\ seekTable' = res.S.seekTable
                /\ last' = [op |-> "Seek", arg |-> sampleNum, err |-> res.err,
                            f |-> NoFrame, parsed |-> NoFrame, ret |-> res.ret]
                /\ scan' = res.made
        IN  /\ return(Stream_Seek(Stream, sampleNum))
            /\ pending' = NoFrame
            /\ linear' = FALSE
            /\ UNCHANGED fixedVars

Next == DoNext \/ DoFrameParse \/ DoParseNext \/ DoSeek

Spec == Init /\ [][Next]_vars

----------------------------------------------------------------------------
(* The constructors up to the StreamInfo block, and Close: SpecOpen.       *)
(* A reader value rd is a bufio.Reader over the source (kind "bufio": off  *)
(* is the source's offset, buffered the bytes read ahead) or the source    *)
(* read as it is (kind "direct", nothing read ahead).                      *)

\* defaultBufSize of bufio.
bufioSize == 4096

flacSignature == <<102, 76, 97, 67>>
id3Signature == <<73, 68, 51>>

\* a | b on naturals.
RECURSIVE Or(_, _)
Or(a, b) ==
    IF a = 0 THEN b
    ELSE IF b = 0 THEN a
    ELSE (IF a % 2 = 1 \/ b % 2 = 1 THEN 1 ELSE 0)
         + 2 * Or(a \div 2, b \div 2)

\* bufio.NewReader(r) for a reader r at offset off that is no bufio.Reader.
bufio_NewReader(off) == [kind |-> "bufio", off |-> off, buffered |-> 0]

\* The offset of the next byte rd delivers.
Pos(rd) == rd.off - rd.buffered

\* rd after delivering up to k bytes, and the count n delivered.  A
\* bufio.Reader takes bytes from its buffer and, whenever that is empty,
\* reads the source once, getting at most chunk bytes.
advance(rd, k) ==
    LET avail == IF rd.off >= Len(src) THEN 0 ELSE Len(src) - rd.off
        c == Min(chunk, bufioSize)
        remain == k - rd.buffered
        pulled == Min(((remain + c - 1) \div c) * c, avail)
    IN  IF rd.kind = "direct"
        THEN [rd |-> [rd EXCEPT !.off = @ + Min(k, avail)], n |-> Min(k, avail)]
        ELSE IF k <= rd.buffered
        THEN [rd |-> [rd EXCEPT !.buffered = @ - k], n |-> k]
        ELSE IF remain <= avail
        THEN [rd |-> [rd EXCEPT !.off = @ + pulled,
                                !.buffered = pulled - remain],
              n |-> k]
        ELSE [rd |-> [rd EXCEPT !.off = @ + avail, !.buffered = 0],
              n |-> rd.buffered + avail]

\* io.ReadFull(rd, p) with len(p) = k.
io_ReadFull(rd, k) ==
    LET return(a) ==
            [rd |-> a.rd, p |-> SubSeq(src, Pos(rd) + 1, Pos(rd) + a.n),
             err |-> IF a.n = k THEN nil
                     ELSE IF a.n = 0 THEN EOF ELSE ErrUnexpectedEOF]
    IN  return(advance(rd, k))

\* (*bufio.Reader).Discard(k).
bufio_Discard(rd, k) ==
    LET return(a) == [rd |-> a.rd, err |-> IF a.n = k THEN nil ELSE EOF]
    IN  return(advance(rd, k))

\* (*bufio.Reader).Read(p) with 0 < len(p) = k < bufioSize: one read of the
\* source at most, and only when nothing is buffered.
bufio_Read(rd, k) ==
    LET copy(r1) ==
            [rd |-> [r1 EXCEPT !.buffered = @ - Min(k, r1.buffered)],
             p |-> SubSeq(src, Pos(r1) + 1, Pos(r1) + Min(k, r1.buffered)),
             err |-> nil]
        filled(got) ==
            IF got = 0 THEN [rd |-> rd, p |-> <<>>, err |-> EOF]
            ELSE copy([rd EXCEPT !.off = @ + got, !.buffered = got])
    IN  IF rd.buffered = 0 THEN filled(srcRead(rd.off, bufioSize))
        ELSE copy(rd)


\* The synchsafe size in sizeBuf, of which Read filled the first Len(p)
\* bytes.
synchsafe(p) ==
    LET sizeBuf == p \o [i \in 1..(4 - Len(p)) |-> 0]
    IN  Or(Or(sizeBuf[1] * (2^21), sizeBuf[2] * (2^14)),
           Or(sizeBuf[3] * (2^7), sizeBuf[4]))

\* Stream.skipID3v2 with stream.r = rd.  bufio.NewReader returns rd itself
\* when rd is a bufio.Reader; over any other reader it is a new buffer,
\* dropped on return with what it read ahead.
skipID3v2(rd) ==
    LET back(r) == IF rd.kind = "bufio" THEN r
                   ELSE [kind |-> "direct", off |-> r.off, buffered |-> 0]
        payload(d) == [rd |-> back(d.rd), err |-> d.err]
        size(rr) == IF rr.err # nil THEN [rd |-> back(rr.rd), err |-> rr.err]
                    ELSE payload(bufio_Discard(rr.rd, synchsafe(rr.p)))
        header(d) == IF d.err # nil THEN [rd |-> back(d.rd), err |-> d.err]
                     ELSE size(bufio_Read(d.rd, 4))
    IN  header(bufio_Discard(IF rd.kind = "bufio" THEN rd
                             ELSE bufio_NewReader(rd.off), 2))

\* The metadata block types.
TypeStreamInfo == 0
TypeSeekTable == 3
TypePicture == 6

NoBlock == [Type |-> 0, Length |-> 0, IsLast |-> FALSE, at |-> -1,
            Points |-> <<>>]

\* Block.parseHeader: the four bytes of a block header.  at is the offset
\* the header was read at, kept for the claims.
parseHeader(rd) ==
    LET parsed(rh) ==
            IF rh.err # nil THEN [rd |-> rh.rd, block |-> NoBlock, err |-> EOF]
            ELSE [rd |-> rh.rd,
                  block |-> [Type |-> rh.p[1] % 128,
                             Length |-> Or(Or(rh.p[2] * 65536, rh.p[3] * 256),
                                           rh.p[4]),
                             IsLast |-> rh.p[1] >= 128,
                             at |-> Pos(rd),
                             Points |-> <<>>],
                  err |-> nil]
    IN  parsed(io_ReadFull(rd, blockHeaderLen))

\* meta.New: the header of the next block.
meta_New(rd) == parseHeader(rd)

\* The seek points in the body of a SeekTable block: SampleNum (8 bytes),
\* Offset (8 bytes) and NSamples (2 bytes) of each, of which the bodies
\* here use the lowest byte.
seekPoints(body) ==
    [i \in 1..(Len(body) \div seekPointLen) |->
        [SampleNum |-> body[seekPointLen * (i - 1) + 8],
         Offset |-> body[seekPointLen * (i - 1) + 16],
         NSamples |-> body[seekPointLen * (i - 1) + 18]]]

\* Block.Parse: the body of a block of a defined type is read through the
\* block's limited reader, all Length bytes of it; a reserved or invalid
\* type is reported with nothing read.
Block_Parse(rd, block) ==
    LET body(rb) ==
            IF rb.err # nil
            THEN [rd |-> rb.rd, block |-> block, err |-> unexpected(rb.err)]
            ELSE [rd |-> rb.rd,
                  block |-> IF block.Type = TypeSeekTable
                            THEN [block EXCEPT !.Points = seekPoints(rb.p)]
                            ELSE block,
                  err |-> nil]
    IN  IF block.Type <= TypePicture
        THEN body(io_ReadFull(rd, block.Length))
        ELSE IF block.Type >= 7 /\ block.Type <= 126
        THEN [rd |-> rd, block |-> block, err |-> ErrReservedType]
        ELSE [rd |-> rd, block |-> block, err |-> ErrInvalidType]

\* meta.Parse: header and body of the next block.
meta_Parse(rd) ==
    LET headed(h) == IF h.err # nil THEN h ELSE Block_Parse(h.rd, h.block)
    IN  headed(meta_New(rd))

\* Block.Skip that skips nothing.
Block_Skip_noBody(rd, block) == [rd |-> rd, err |-> nil]

\* Block.Skip on a block none of whose body was read: the limited reader is
\* no io.Seeker, so io.Copy reads up to Length bytes and reports no error
\* when the source ends before.
Block_Skip(rd, block) ==
    LET copied(a) == [rd |-> a.rd, err |-> nil]
    IN  copied(advance(rd, block.Length))

\* Stream.parseStreamInfo with stream.r = rd.  sigAt is the offset of the
\* four bytes compared with the signature and infoAt the offset meta.Parse
\* started at, -1 when the call did not get that far.
parseStreamInfo(rd) ==
    LET parsed(at, mp) ==
            [rd |-> mp.rd,
             err |-> IF mp.err = nil /\ mp.block.Type # TypeStreamInfo
                     THEN ErrNotStreamInfo ELSE mp.err,
             block |-> mp.block, sigAt |-> at, infoAt |-> at + 4]
        verify(at, rf) ==
            IF rf.err # nil
            THEN [rd |-> rf.rd, err |-> rf.err, block |-> NoBlock,
                  sigAt |-> -1, infoAt |-> -1]
            ELSE IF rf.p # flacSignature
            THEN [rd |-> rf.rd, err |-> ErrInvalidSignature,
                  block |-> NoBlock, sigAt |-> at, infoAt |-> -1]
            ELSE parsed(at, meta_Parse(rf.rd))
        second(sk) ==
            IF sk.err # nil
            THEN [rd |-> sk.rd, err |-> sk.err, block |-> NoBlock,
                  sigAt |-> -1, infoAt |-> -1]
            ELSE verify(Pos(sk.rd), io_ReadFull(sk.rd, signatureLen))
        first(rf) ==
            IF rf.err # nil
            THEN [rd |-> rf.rd, err |-> rf.err, block |-> NoBlock,
                  sigAt |-> -1, infoAt |-> -1]
            ELSE IF SubSeq(rf.p, 1, 3) = id3Signature
            THEN second(skipID3v2(rf.rd))
            ELSE verify(Pos(rd), rf)
    IN  first(io_ReadFull(rd, signatureLen))

\* What a constructor returns and leaves in the stream: whether a stream is
\* returned, the error, stream.Blocks, stream.seekTable, stream.dataStart
\* and the offset pos the frame bit reader starts at; sigAt and infoAt are
\* those of parseStreamInfo.
result(stream, err, info, rd, blocks, table, start) ==
    [stream |-> stream, closer |-> FALSE, err |-> err,
     sigAt |-> info.sigAt, infoAt |-> info.infoAt,
     blocks |-> blocks, table |-> table, dataStart |-> start,
     pos |-> IF err = nil THEN Pos(rd) ELSE -1]

\* The loop of New over the blocks after rd: each header is read and its
\* body skipped.
RECURSIVE skipBlocks(_)
skipBlocks(rd) ==
    LET skipped(h, sk) ==
            IF sk.err # nil THEN [rd |-> sk.rd, err |-> sk.err]
            ELSE IF h.block.IsLast THEN [rd |-> sk.rd, err |-> nil]
            ELSE skipBlocks(sk.rd)
        headed(h) ==
            IF h.err # nil /\ h.err # ErrReservedType
            THEN [rd |-> h.rd, err |-> h.err]
            ELSE skipped(h, Block_Skip(h.rd, h.block))
    IN  headed(meta_New(rd))

\* New(r), for r at offset off: stream.r is a bufio.Reader over r; a
\* failing parseStreamInfo returns no stream.
New(off) ==
    LET looped(info, lp) ==
            result(TRUE, lp.err, info, lp.rd, <<>>, NoTable, 0)
        return(info) ==
            IF info.err # nil
            THEN result(FALSE, info.err, info, info.rd, <<>>, NoTable, 0)
            ELSE IF info.block.IsLast
            THEN result(TRUE, nil, info, info.rd, <<>>, NoTable, 0)
            ELSE looped(info, skipBlocks(info.rd))
    IN  return(parseStreamInfo(bufio_NewReader(off)))

\* The loop of NewSeek that keeps the first SeekTable block it meets.
RECURSIVE parseBlocks_firstTable(_, _, _)
parseBlocks_firstTable(rd, blocks, table) ==
    LET kept(r, b) ==
            IF b.IsLast
            THEN [rd |-> r, err |-> nil, blocks |-> Append(blocks, b),
                  table |-> IF b.Type = TypeSeekTable /\ table.isNil
                            THEN Table(b.Points)
                            ELSE table]
            ELSE parseBlocks_firstTable(r, Append(blocks, b),
                             IF b.Type = TypeSeekTable /\ table.isNil
                             THEN Table(b.Points)
                             ELSE table)
        skipped(mp, sk) ==
            IF sk.err # nil
            THEN [rd |-> sk.rd, err |-> sk.err, blocks |-> blocks,
                  table |-> table]
            ELSE kept(sk.rd, mp.block)
        parsed(mp) ==
            IF mp.err = nil THEN kept(mp.rd, mp.block)
            ELSE IF mp.err # ErrReservedType
            THEN [rd |-> mp.rd, err |-> mp.err, blocks |-> blocks,
                  table |-> table]
            ELSE skipped(mp, Block_Skip(mp.rd, mp.block))
    IN  parsed(meta_Parse(rd))

\* The loop of Parse and of NewSeek over the blocks after rd: each block is
\* parsed, the body of a block of reserved type is skipped, and the block
\* is appended to blocks.  NewSeek keeps no blocks, only the last
\* SeekTable block (table).
RECURSIVE parseBlocks(_, _, _)
parseBlocks(rd, blocks, table) ==
    LET kept(r, b) ==
            IF b.IsLast
            THEN [rd |-> r, err |-> nil, blocks |-> Append(blocks, b),
                  table |-> IF b.Type = TypeSeekTable THEN Table(b.Points)
                            ELSE table]
            ELSE parseBlocks(r, Append(blocks, b),
                             IF b.Type = TypeSeekTable THEN Table(b.Points)
                             ELSE table)
        skipped(mp, sk) ==
            IF sk.err # nil
            THEN [rd |-> sk.rd, err |-> sk.err, blocks |-> blocks,
                  table |-> table]
            ELSE kept(sk.rd, mp.block)
        parsed(mp) ==
            IF mp.err = nil THEN kept(mp.rd, mp.block)
            ELSE IF mp.err # ErrReservedType
            THEN [rd |-> mp.rd, err |-> mp.err, blocks |-> blocks,
                  table |-> table]
            ELSE skipped(mp, Block_Skip(mp.rd, mp.block))
    IN  parsed(meta_Parse(rd))

\* Parse(r), for r at offset off.
Parse(off) ==
    LET looped(info, lp) ==
            result(TRUE, lp.err, info, lp.rd, lp.blocks, NoTable, 0)
        return(info) ==
            IF info.err # nil
            THEN result(FALSE, info.err, info, info.rd, <<>>, NoTable, 0)
            ELSE IF info.block.IsLast
            THEN result(TRUE, nil, info, info.rd, <<>>, NoTable, 0)
            ELSE looped(info, parseBlocks(info.rd, <<>>, NoTable))
    IN  return(parseStreamInfo(bufio_NewReader(off)))

\* NewSeek(rs): stream.r is the seekable reader itself, and the stream is
\* returned along with the error; dataStart is the reader's offset after
\* the last block.
NewSeek(off) ==
    LET looped(info, lp) ==
            result(TRUE, lp.err, info, lp.rd, <<>>, lp.table,
                   IF lp.err = nil THEN Pos(lp.rd) ELSE 0)
        return(info) ==
            IF info.err # nil
            THEN result(TRUE, info.err, info, info.rd, <<>>, NoTable, 0)
            ELSE IF info.block.IsLast
            THEN result(TRUE, nil, info, info.rd, <<>>, NoTable,
                        Pos(info.rd))
            ELSE looped(info, parseBlocks(info.rd, <<>>, NoTable))
    IN  return(parseStreamInfo([kind |-> "direct", off |-> off,
                                buffered |-> 0]))

\* Stream.Close: closes stream.r when it is an io.Closer; the bufio.Reader
\* that New and Parse store is none.
Stream_Close(isCloser, f) == IF isCloser THEN "closed" ELSE f

\* The streams opened: a StreamInfo block, the last metadata block, after
\* the signature, after an ID3v2 tag of 0, 3 or 129 bytes, after a wrong
\* signature, and cut short.
StreamInfoBlock == <<128, 0, 0, 34>> \o [i \in 1..34 |-> 0]

id3Tag(sizeBytes, n) ==
    id3Signature \o <<4, 0, 0>> \o sizeBytes \o [i \in 1..n |-> 1]

TaggedSources ==
    {id3Tag(<<0, 0, 0, 0>>, 0) \o flacSignature \o StreamInfoBlock,
     id3Tag(<<0, 0, 0, 3>>, 3) \o flacSignature \o StreamInfoBlock,
     id3Tag(<<0, 0, 1, 1>>, 129) \o flacSignature \o StreamInfoBlock,
     id3Tag(<<0, 0, 0, 3>>, 3) \o <<102, 76, 97, 88>> \o StreamInfoBlock}

OpenSources ==
    TaggedSources \cup
    {flacSignature \o StreamInfoBlock,
     <<82, 73, 70, 70>> \o StreamInfoBlock,
     flacSignature \o <<128, 0, 0, 34, 0, 0>>,
     flacSignature \o <<132, 0, 0, 2, 0, 0>>,
     <<102, 76>>,
     id3Signature \o <<4>>}

\* What one Read of the source delivers at most.
OpenChunks == {1, 7, bufioSize}

NoOpen == [op |-> "none", stream |-> FALSE, closer |-> FALSE, err |-> nil,
           sigAt |-> -1, infoAt |-> -1, blocks |-> <<>>, table |-> NoTable,
           dataStart |-> 0, pos |-> -1]

OpenInit ==
    /\ src \in OpenSources
    /\ chunk \in OpenChunks
    /\ seekable = TRUE
    /\ br = NewReader(0)
    /\ last = NoOpen
    /\ consumed = 0
    /\ frames = <<>>
    /\ Info = [NSamples |-> 0, NChannels |-> 0]
    /\ seekTable = NoTable
    /\ seekTableSize = 0
    /\ dataStart = 0
    /\ samplesDecoded = 0
    /\ pending = NoFrame
    /\ linear = TRUE
    /\ scan = NoScan
    /\ crcFrom = NoWindow
    /\ fed = 0
    /\ file = "none"
    /\ written = NoWrite

openVars == <<src, chunk, seekable, br, consumed, frames, Info, seekTable,
              seekTableSize, dataStart, samplesDecoded, pending, linear,
              scan, crcFrom, written, fed>>

\* What no constructor changes.
openFixed == <<src, chunk, seekable, consumed, frames, Info, samplesDecoded,
               pending, linear, scan, crcFrom, written, fed>>

\* The result res of a constructor called as op, and the fields of the
\* stream it built: seekTableSize is size, the frame bit reader starts
\* where the metadata ended.
opened(op, res, size) ==
    /\ last' = [op |-> op] @@ res
    /\ seekTable' = res.table
    /\ seekTableSize' = size
    /\ dataStart' = res.dataStart
    /\ br' = IF res.err = nil THEN NewReader(res.pos) ELSE br
    /\ UNCHANGED openFixed

\* A caller calls New(r) on a reader over src.
DoNew ==
    /\ last.op = "none"
    /\ opened("New", New(0), 0)
    /\ UNCHANGED file

\* A caller calls Parse(r) on a reader over src.
DoParse ==
    /\ last.op = "none"
    /\ opened("Parse", Parse(0), 0)
    /\ UNCHANGED file

\* A caller calls NewSeek(rs) on a seekable reader over src.
DoNewSeek ==
    /\ last.op = "none"
    /\ opened("NewSeek", NewSeek(0), defaultSeekTableSize)
    /\ UNCHANGED file

\* A caller calls Open(path) on a file holding src: os.Open, then New(f).
DoOpen ==
    /\ last.op = "none"
    /\ opened("Open", New(0), 0)
    /\ file' = "open"

\* A caller calls ParseFile(path) on a file holding src: os.Open, then
\* Parse(f).
DoParseFile ==
    /\ last.op = "none"
    /\ opened("ParseFile", Parse(0), 0)
    /\ file' = "open"

\* A caller calls stream.Close() on the stream a constructor returned.
DoClose ==
    /\ last.op \notin {"none", "Close"}
    /\ last.stream
    /\ last' = [last EXCEPT !.op = "Close", !.err = nil]
    /\ file' = Stream_Close(last.closer, file)
    /\ UNCHANGED openVars

OpenNext ==
    \/ DoNew
    \/ DoParse
    \/ DoNewSeek
    \/ DoOpen
    \/ DoParseFile
    \/ DoClose

SpecOpen == OpenInit /\ [][OpenNext]_vars

\* ---------------------------------------------------------------------
\* The constructors on streams with several metadata blocks.
\* ---------------------------------------------------------------------

\* A metadata block of type t whose header declares length bytes of body and
\* which holds body; isLast sets the top bit of the first header byte.
metaBlock(isLast, t, length, body) ==
    <<(IF isLast THEN 128 ELSE 0) + t, 0, length \div 256, length % 256>>
    \o body

\* The body of a SeekTable block with one seek point.
onePoint(sampleNum, offset, nSamples) ==
    <<0, 0, 0, 0, 0, 0, 0, sampleNum, 0, 0, 0, 0, 0, 0, 0, offset,
      0, nSamples>>

zeros(n) == [i \in 1..n |-> 0]
opaque(n) == [i \in 1..n |-> 9]

\* The first two bytes of a frame header.
frameSync == <<255, 248>>

\* Signature and a StreamInfo block that is not the last block.
streamHead == flacSignature \o metaBlock(FALSE, TypeStreamInfo, 34, zeros(34))

\* The streams opened: padding, seek tables and blocks of reserved type 7
\* and 126 in several orders, a block of the invalid type 127, a block after
\* the last one, a body of 258 bytes, a stream behind an ID3v2 tag, and
\* streams that end inside a header or inside a body.  The bodies of the
\* blocks of defined type are bodies any parser of that type reads whole:
\* zero padding and whole seek points.
MetaSources ==
    {streamHead \o metaBlock(TRUE, 1, 2, zeros(2)) \o frameSync,
     streamHead \o metaBlock(FALSE, 7, 3, opaque(3))
         \o metaBlock(TRUE, 1, 0, <<>>) \o frameSync,
     streamHead \o metaBlock(TRUE, 126, 3, opaque(3)) \o frameSync,
     streamHead \o metaBlock(FALSE, TypeSeekTable, 18, onePoint(0, 0, 4))
         \o metaBlock(FALSE, 7, 258, opaque(258))
         \o metaBlock(TRUE, TypeSeekTable, 18, onePoint(4, 9, 2))
         \o frameSync,
     streamHead \o metaBlock(TRUE, TypeSeekTable, 18, onePoint(0, 0, 4)),
     streamHead \o metaBlock(FALSE, 1, 2, zeros(2))
         \o metaBlock(TRUE, 127, 2, opaque(2)) \o frameSync,
     streamHead \o metaBlock(TRUE, 1, 2, zeros(2))
         \o metaBlock(TRUE, 1, 2, zeros(2)) \o frameSync,
     id3Tag(<<0, 0, 0, 3>>, 3) \o streamHead
         \o metaBlock(FALSE, 126, 3, opaque(3))
         \o metaBlock(TRUE, 1, 2, zeros(2)) \o frameSync,
     streamHead \o metaBlock(FALSE, 1, 2, zeros(2)),
     streamHead \o metaBlock(FALSE, 7, 3, opaque(3)) \o <<129, 0>>,
     streamHead \o metaBlock(TRUE, 1, 4, zeros(2)),
     streamHead \o metaBlock(TRUE, 7, 5, opaque(2)),
     streamHead \o metaBlock(FALSE, 7, 5, opaque(2))}

MetaInit ==
    /\ src \in MetaSources
    /\ chunk \in OpenChunks
    /\ seekable = TRUE
    /\ br = NewReader(0)
    /\ last = NoOpen
    /\ consumed = 0
    /\ frames = <<>>
    /\ Info = [NSamples |-> 0, NChannels |-> 0]
    /\ seekTable = NoTable
    /\ seekTableSize = 0
    /\ dataStart = 0
    /\ samplesDecoded = 0
    /\ pending = NoFrame
    /\ linear = TRUE
    /\ scan = NoScan
    /\ crcFrom = NoWindow
    /\ fed = 0
    /\ file = "none"
    /\ written = NoWrite

SpecMeta == MetaInit /\ [][OpenNext]_vars

----------------------------------------------------------------------------
(* Claims about the bit reader, checked under SpecBits.                    *)

\* C3: a reader call reports graceful io.EOF only when it consumed nothing:
\* after a call that returned io.EOF the logical bit position is where it
\* was before the call.
C3_EofOnlyWhenNothingConsumed ==
    (last.op \in {"Read", "ReadUnary"} /\ last.err = EOF)
        => BitPos(br) = last.before

\* C9: a successful Read(n) returns the next n bits of the source, most
\* significant first, and advances the reader by exactly n bits; Read(0)
\* returns 0 and leaves the position alone.
C9_ReadReturnsNextBits ==
    (last.op = "Read" /\ last.err = nil)
        => /\ last.x = SrcBits(last.at, last.n)
           /\ BitPos(br) = last.at + last.n
           /\ last.n = 0 => (last.x = <<>> /\ BitPos(br) = last.before)

\* C9 witness: a 13-bit Read that took 3 bits from the partial-byte register
\* and the rest from two buffer refills of one byte each.
C9_Witness ==
    /\ last.op = "Read" /\ last.err = nil /\ last.n = 13
    /\ chunk = 1 /\ last.before % 8 = 5
    /\ last.x # <<>>

\* C10: a successful ReadUnary returns the number of zero bits before the
\* next set bit and leaves the reader on the bit after that set bit.
C10_ReadUnaryCountsZeros ==
    (last.op = "ReadUnary" /\ last.err = nil)
        => /\ last.q = ZerosFrom(last.at)
           /\ BitPos(br) = last.at + last.q + 1

\* C10 witness: a run of more than 64 zeros that starts in the partial-byte
\* register, spans a buffer refill and ends in the 8-byte word scan.
C10_Witness ==
    /\ last.op = "ReadUnary" /\ last.err = nil
    /\ last.path = "word" /\ last.q > 64
    /\ chunk = 8 /\ last.before % 8 # 0

----------------------------------------------------------------------------
(* Claims about the stream driver, checked under Spec.                     *)

frameCalls == {"Next", "ParseNext"}

\* The stream is an encoder's output: its frames have the declared channel
\* count and hold the declared total of samples.
wellFormed ==
    /\ \A i \in 1..Len(frames) : frames[i].Channels = Info.NChannels
    /\ Info.NSamples = streamSamples(frames)

\* C1: with a non-zero declared total N and a target t < N, the ParseNext
\* call that follows a successful Seek(t) returns a frame F with
\* F.SampleNumber <= t < F.SampleNumber + F.BlockSize and leaves
\* samplesDecoded = F.SampleNumber + F.BlockSize, for a seek table from a
\* metadata block as for a synthesized one.  Stated for well-formed
\* streams, the weakest reading.
C1_SeekThenParseNextHoldsTarget ==
    [][(/\ seekable /\ wellFormed /\ Info.NSamples # 0
        /\ last.op = "Seek" /\ last.err = nil /\ last.arg < Info.NSamples
        /\ last'.op = "ParseNext" /\ last'.err = nil)
       => /\ last'.f.SampleNumber <= last.arg
          /\ last.arg < last'.f.SampleNumber + last'.f.BlockSize
          /\ samplesDecoded' = last'.f.SampleNumber + last'.f.BlockSize]_vars

\* C2: Seek on a stream that New or Parse opened returns the not-seekable
\* error; it does not crash in the seek-table lookup.
C2_SeekOnNewReturnsNotSeekable ==
    (last.op = "Seek" /\ ~seekable) => last.err = ErrNoSeeker

\* C4: a frame that Next or ParseNext returns has the channel count that
\* StreamInfo declares; when the parsed frame's count differs, the call
\* returns the channel-mismatch error and no frame.
C4_FrameChannelsMatchInfo ==
    last.op \in frameCalls
        => /\ (last.err = nil /\ last.f # NoFrame)
                => last.f.Channels = Info.NChannels
           /\ (last.parsed # NoFrame
                /\ last.parsed.Channels # Info.NChannels)
                => (last.err = ErrChannelMismatch /\ last.f = NoFrame)

\* C4 witness: a ParseNext call that parsed a one-channel frame of a
\* two-channel stream, after a frame it returned.
C4_Witness ==
    /\ last.op = "ParseNext" /\ last.err = ErrChannelMismatch
    /\ last.parsed.Channels = 1 /\ Info.NChannels = 2
    /\ samplesDecoded > 0

\* C5: a Next/ParseNext call whose frame parsed and passed the channel
\* check adds the frame's BlockSize to samplesDecoded, and fails with the
\* sample-overflow error exactly when NSamples is non-zero and the new
\* samplesDecoded is greater than NSamples.
C5_SampleCountChecked ==
    [][(/\ last'.op \in frameCalls
        /\ last'.parsed # NoFrame
        /\ last'.parsed.Channels = Info.NChannels)
       => /\ samplesDecoded' = samplesDecoded + last'.parsed.BlockSize
          /\ (last'.err = ErrSampleOverflow)
                <=> (Info.NSamples # 0 /\ samplesDecoded' > Info.NSamples)
          /\ Info.NSamples = 0 => last'.err # ErrSampleOverflow]_vars

\* C5 witness: a ParseNext call that took samplesDecoded past a non-zero
\* declared total and failed with the sample-overflow error, after a frame
\* that fitted.
C5_Witness ==
    /\ last.op = "ParseNext" /\ last.err = ErrSampleOverflow
    /\ Info.NSamples # 0
    /\ samplesDecoded > Info.NSamples
    /\ samplesDecoded - last.parsed.BlockSize > 0

\* C6 as stated: with a declared total N > 0, decoding a stream of at least
\* one frame frame by frame from the start ends, at io.EOF, with
\* samplesDecoded = N.
C6_DecodingToEofCountsTotal ==
    (/\ linear /\ Info.NSamples > 0 /\ frames # <<>>
     /\ last.op \in frameCalls /\ last.err = EOF)
        => samplesDecoded = Info.NSamples

\* C6 amended: decoding frame by frame from the start ends, at io.EOF, with
\* samplesDecoded equal to the number of samples the stream holds, which is
\* at most a non-zero declared total N.
C6_DecodingToEofCountsStream ==
    (linear /\ last.op \in frameCalls /\ last.err = EOF)
        => /\ samplesDecoded = streamSamples(frames)
           /\ Info.NSamples > 0 => samplesDecoded <= Info.NSamples

\* C6 witness: a stream that holds fewer samples than its declared total,
\* decoded from the start to a graceful io.EOF.
C6_Witness ==
    /\ linear /\ last.op \in frameCalls /\ last.err = EOF
    /\ Info.NSamples > 0
    /\ samplesDecoded > 0 /\ samplesDecoded < Info.NSamples

C8_SynthesisRestoresState ==
    scan.ran => (scan.samplesMoved = 0 /\ scan.posMoved = 0)

----------------------------------------------------------------------------
(* Claims on the bit reader's other calls, checked under SpecReader.       *)

\* ReadUnary followed by Read(k), from the reader b.
UnaryThenRead(b, k) ==
    LET low(q, res) == [br |-> res.br, q |-> q, r |-> res.x, err |-> res.err]
        unary(u) == IF u.err # nil
                    THEN [br |-> u.br, q |-> 0, r |-> <<>>, err |-> u.err]
                    ELSE low(u.x, Read(u.br, k))
    IN  unary(ReadUnary(b))

\* (folded >> 1) XOR -(folded & 1) as a signed 32-bit value, for the 32-bit
\* folded = (q << k) | r with q < 2^31 and r < 2^k.
ZigZagOf(q, k, r) ==
    LET half == IF k <= 1 THEN q \div (2^(1 - k))
                ELSE (q % (2^(32 - k))) * (2^(k - 1)) + (r \div 2)
        odd == IF k = 0 THEN q % 2 ELSE r % 2
    IN  IF odd = 1 THEN -half - 1 ELSE half

\* C11: from every reader state and for every Rice parameter k, ReadRice(k)
\* fails exactly when ReadUnary followed by Read(k) fails, and otherwise it
\* returns the ZigZag decoding of folded = (q << k) | r, with q and r the
\* results of that two-call sequence, and leaves the reader at the same bit
\* position with the same CRC accumulators; with k = 0 the position is the
\* one ReadUnary alone leaves.
C11_RiceIsUnaryThenRead ==
    \A k \in RiceParams :
        LET same(rice, two) ==
                /\ (rice.err = nil) = (two.err = nil)
                /\ rice.err = nil =>
                       /\ rice.v = ZigZagOf(two.q, k, NatOf(two.r))
                       /\ BitPos(rice.br) = BitPos(two.br)
                       /\ rice.br.crc16 = two.br.crc16
                       /\ rice.br.crc8 = two.br.crc8
            alone(rice, u) ==
                (k = 0 /\ rice.err = nil) => BitPos(rice.br) = BitPos(u.br)
        IN  /\ same(ReadRice(br, k), UnaryThenRead(br, k))
            /\ alone(ReadRice(br, k), ReadUnary(br))

\* C11 witness: a ReadRice(9) succeeded with both accumulators enabled, from
\* a reader holding fewer than 9 bits after the unary prefix, and returned a
\* negative value.
C11_Witness ==
    /\ last.op = "ReadRice" /\ last.err = nil /\ last.n = 9
    /\ br.doCRC16 /\ br.doCRC8
    /\ last.v < 0

\* C12: the bits WriteUnary(q) and WriteBits(r, k) produce, at any starting
\* bit alignment, are read back by ReadUnary as q and by the following
\* Read(k) as r.
C12_UnaryRoundTrip ==
    /\ (written.phase = "read" /\ last.op = "ReadUnary")
          => (last.err = nil /\ last.q = written.q)
    /\ (written.phase = "read" /\ last.op = "Read" /\ last.at > 0)
          => /\ last.err = nil
             /\ last.at = written.align + written.q + 1
             /\ last.n = written.k
             /\ last.x = Strip(BitsOf(written.r, written.k))

\* C12 witness: a unary value above 8, written after 5 other bits, and 9 low
\* bits with the top bit set were read back.
C12_Witness ==
    /\ written.phase = "read" /\ last.op = "Read" /\ last.at > 0
    /\ written.align = 5 /\ written.q > 8 /\ written.k = 9
    /\ written.r >= 256 /\ last.err = nil

\* C13: while an accumulator that was enabled on a byte boundary at offset a
\* stays enabled and every call since succeeded, it holds the CRC of the
\* source bytes from a up to the reader's logical position, each folded
\* once and in order, whatever was read ahead.
C13_CRCLaw ==
    /\ (crcFrom.c16 >= 0 /\ br.doCRC16)
          => br.crc16 =
                 crc16Update(0, SubSeq(src, crcFrom.c16 + 1, BytePos(br)))
    /\ (crcFrom.c8 >= 0 /\ br.doCRC8)
          => br.crc8 = crc8Update(0, SubSeq(src, crcFrom.c8 + 1, BytePos(br)))

\* C13 witness: both accumulators, enabled at offset 2, have followed the
\* reader to the end of a source delivered three bytes at a time, the last
\* bytes through ReadAligned.
C13_Witness ==
    /\ crcFrom.c16 = 2 /\ crcFrom.c8 = 2 /\ br.doCRC16 /\ br.doCRC8
    /\ chunk = 3 /\ BytePos(br) = Len(src)
    /\ last.op = "ReadAligned" /\ last.err = nil /\ last.n = 2
    /\ br.crc16 # 0 /\ br.crc8 # 0

\* C14: in every state of a reader on a seekable source, the position query
\* Seek(0, SeekCurrent) succeeds, returns the underlying position minus
\* (end - pos), which is the number of source bytes up to the last one the
\* caller has consumed a bit of, and leaves the reader as it is.
C14_PositionQuery ==
    LET query(res) ==
            /\ res.err = nil
            /\ res.ret = br.r - (br.end - br.pos)
            /\ res.ret = (consumed + 7) \div 8
            /\ res.br = br
    IN  seekable => query(Reader_Seek(br, 0, SeekCurrent))

\* C14 witness: a position query answered 5 while bits of the fifth byte
\* were still in the partial-byte register, bytes were read ahead and
\* CRC-16 was enabled.
C14_Witness ==
    /\ last.op = "Seek" /\ last.offset = 0 /\ last.whence = SeekCurrent
    /\ last.err = nil /\ last.ret = 5
    /\ br.n > 0 /\ available(br) > 0 /\ br.doCRC16

\* C15: a Seek other than (0, SeekCurrent) on a seekable source leaves the
\* read-ahead buffer empty, the partial-byte register clear and both CRC
\* accumulators zero and disabled; when it succeeds, the next position
\* query returns the previous logical position plus d for a relative seek
\* by d, and p for an absolute seek to p.
C15_SeekResets ==
    [][(/\ last'.op = "Seek"
        /\ ~(last'.offset = 0 /\ last'.whence = SeekCurrent))
       => /\ available(br') = 0
          /\ br'.n = 0 /\ br'.x = 0
          /\ br'.crc16 = 0 /\ br'.crc8 = 0
          /\ ~br'.doCRC16 /\ ~br'.doCRC8
          /\ (last'.err = nil /\ last'.whence = SeekCurrent)
                => Reader_Seek(br', 0, SeekCurrent).ret
                       = BytePos(br) + last'.offset
          /\ (last'.err = nil /\ last'.whence = SeekStart)
                => Reader_Seek(br', 0, SeekCurrent).ret = last'.offset]_vars

\* C15 witness: a relative seek two bytes back succeeded on a reader that
\* held bits in the register, bytes read ahead and both CRCs enabled.
C15_Witness ==
    /\ last.op = "Seek" /\ last.whence = SeekCurrent /\ last.offset = -2
    /\ last.err = nil /\ last.dirty
    /\ last.ret = last.from - 2

\* C16: ReadAligned(p) on a reader holding bits in the partial-byte register
\* fails with the not-aligned error and leaves the reader as it is; on a
\* byte-aligned reader with at least len(p) bytes left in the source it
\* returns the next len(p) source bytes in order and advances the logical
\* position by len(p), taking from the source itself, unbuffered, exactly
\* the bytes the read-ahead buffer did not hold.
C16_ReadAligned ==
    [][(last'.op = "ReadAligned")
       => /\ (br.n # 0) => (last'.err = ErrNotAligned /\ br' = br)
          /\ (br.n = 0 /\ BytePos(br) + last'.n <= Len(src))
                => /\ last'.err = nil
                   /\ last'.p = SubSeq(src, BytePos(br) + 1,
                                        BytePos(br) + last'.n)
                   /\ BytePos(br') = BytePos(br) + last'.n
                   /\ br'.n = 0
                   /\ IF last'.n > available(br)
                      THEN /\ available(br') = 0
                           /\ br'.r = br.r + (last'.n - available(br))
                      ELSE br'.r = br.r]_vars

\* C16 witness: a ReadAligned of five bytes succeeded, part from the
\* read-ahead buffer and part from the source itself.
C16_Witness ==
    /\ last.op = "ReadAligned" /\ last.err = nil /\ last.n = 5
    /\ chunk = 3 /\ last.before = 16
    /\ BytePos(br) = 7 /\ available(br) = 0 /\ br.r = 7

----------------------------------------------------------------------------
(* Claims about the constructors and Close, checked under SpecOpen.        *)

\* The offset at which the signature of the stream s is due: 0, or 10 + size
\* after an ID3v2 header (-1 when that header is cut short).
tagEnd(s) ==
    IF Len(s) >= 3 /\ SubSeq(s, 1, 3) = id3Signature
    THEN IF Len(s) >= 10
         THEN 10 + s[7] * (2^21) + s[8] * (2^14) + s[9] * (2^7) + s[10]
         ELSE -1
    ELSE 0

\* C17: New, Parse and NewSeek check the signature at offset 0, or at
\* offset 10 + size after an ID3v2 header: when the stream holds four bytes
\* there they are the bytes compared, the call fails with the
\* invalid-signature error unless they are fLaC, and on success the
\* StreamInfo block was parsed from the byte after them.
C17_SignatureAtTagEnd ==
    (last.op \in {"New", "Parse", "NewSeek"} /\ tagEnd(src) >= 0
        /\ Len(src) >= tagEnd(src) + 4)
    => /\ last.sigAt = tagEnd(src)
       /\ SubSeq(src, tagEnd(src) + 1, tagEnd(src) + 4) # flacSignature
             => last.err = ErrInvalidSignature
       /\ last.err = nil => last.infoAt = tagEnd(src) + 4

\* C18: a failing Open or ParseFile has closed the file it opened, and after
\* Close on a stream that Open or ParseFile returned the file is closed.
C18_FileClosedOnEveryExit ==
    /\ (last.op \in {"Open", "ParseFile"} /\ last.err # nil)
          => file = "closed"
    /\ (last.op = "Close" /\ file # "none") => file = "closed"

----------------------------------------------------------------------------
(* The seek-table lookup on its own, SpecSearch: a stream holds a seek     *)
(* table read from its metadata, sorted strictly by SampleNum as the       *)
(* format requires of real points, and Seek looks a sample number up.      *)

\* The sample counts of the seek points.
Counts == {1, 2, 4}
\* The sample numbers looked up: below, inside and above every point.
Targets == 0..(MaxStart + 5)

SeekPoint(sampleNum, nSamples) ==
    [SampleNum |-> sampleNum, Offset |-> 8 * sampleNum, NSamples |-> nSamples]

SeekPoints == {SeekPoint(n, c) : n \in 0..MaxStart, c \in Counts}

\* The point lists of at most MaxPoints real points, sorted strictly by
\* SampleNum.
SortedPoints ==
    {ps \in UNION {[1..n -> SeekPoints] : n \in 0..MaxPoints} :
        \A i \in 1..(Len(ps) - 1) : ps[i].SampleNum < ps[i + 1].SampleNum}

NoSearch == [op |-> "none", sampleNum |-> 0, point |-> <<>>, err |-> nil]

SearchInit ==
    /\ seekTable \in {Table(ps) : ps \in SortedPoints}
    /\ src = <<>>
    /\ chunk = readBufSize
    /\ seekable = TRUE
    /\ br = NewReader(0)
    /\ last = NoSearch
    /\ consumed = 0
    /\ frames = <<>>
    /\ Info = [NSamples |-> 0, NChannels |-> 0]
    /\ seekTableSize = 0
    /\ dataStart = 0
    /\ samplesDecoded = 0
    /\ pending = NoFrame
    /\ linear = TRUE
    /\ scan = NoScan
    /\ crcFrom = NoWindow
    /\ fed = 0
    /\ file = "none"
    /\ written = NoWrite

\* Seek calls stream.searchFromStart(sampleNum).
DoSearch ==
    \E sampleNum \in Targets :
        LET return(found) ==
                last' = [op |-> "searchFromStart", sampleNum |-> sampleNum,
                         point |-> found.point, err |-> found.err]
        IN  /\ return(searchFromStart(Stream, sampleNum))
            /\ UNCHANGED <<src, chunk, seekable, br, consumed, frames, Info,
                           seekTable, seekTableSize, dataStart,
                           samplesDecoded, pending, linear, scan, crcFrom,
                           file, written, fed>>

SearchNext == DoSearch

SpecSearch == SearchInit /\ [][SearchNext]_vars

----------------------------------------------------------------------------
(* The lookup in a seek table with unused slots, SpecPlaceholder: the      *)
(* SeekTable block of the stream lists real points, sorted strictly by     *)
(* SampleNum, and after them placeholder points.  The stream holds no      *)
(* frame after its metadata, so a Seek ends at the first frame it asks     *)
(* for.                                                                    *)

\* The sample counts found in placeholder points.
PlaceholderCounts == {0, 1}

Placeholder(nSamples) ==
    [SampleNum |-> AllOnes, Offset |-> 0, NSamples |-> nSamples]

\* At most two placeholder points.
PlaceholderTails ==
    UNION {[1..n -> {Placeholder(c) : c \in PlaceholderCounts}] : n \in 0..2}

PlaceholderInit ==
    /\ seekTable \in {Table(ps \o tail) :
                          ps \in {q \in SortedPoints : Len(q) < MaxPoints},
                          tail \in PlaceholderTails}
    /\ src = <<>>
    /\ chunk = readBufSize
    /\ seekable = TRUE
    /\ br = NewReader(0)
    /\ last = NoSearch
    /\ consumed = 0
    /\ frames = <<>>
    /\ Info = [NSamples |-> 0, NChannels |-> 2]
    /\ seekTableSize = defaultSeekTableSize
    /\ dataStart = 0
    /\ samplesDecoded = 0
    /\ pending = NoFrame
    /\ linear = TRUE
    /\ scan = NoScan
    /\ crcFrom = NoWindow
    /\ fed = 0
    /\ file = "none"
    /\ written = NoWrite

PlaceholderNext == DoSearch \/ DoSeek

SpecPlaceholder == PlaceholderInit /\ [][PlaceholderNext]_vars

----------------------------------------------------------------------------
(* Claims about the seek-table lookup, checked under SpecSearch.           *)

\* The sample number after the last sample of point p.
endOf(p) == p.SampleNum + p.NSamples

\* The last call was a lookup in a table of at least one point.
searched ==
    /\ last.op = "searchFromStart"
    /\ ~seekTable.isNil
    /\ Len(seekTable.Points) > 0

\* The ends of the points do not decrease along the table, as when no point
\* overlaps its successor.
endsAscend ==
    \A i \in 1..(Len(seekTable.Points) - 1) :
        endOf(seekTable.Points[i]) <= endOf(seekTable.Points[i + 1])

\* The last point of the table that ends below t, the first point of the
\* table when none does.
lastEndingBelow(t) ==
    LET ps == seekTable.Points
        below == {i \in 1..Len(ps) : endOf(ps[i]) < t}
    IN  IF below = {} THEN ps[1]
        ELSE ps[CHOOSE i \in below : \A j \in below : j <= i]

\* The point of the table with the highest SampleNum <= t.
lastStartingAtOrBelow(t) ==
    LET ps == seekTable.Points
        atOrBelow == {i \in 1..Len(ps) : ps[i].SampleNum <= t}
    IN  ps[CHOOSE i \in atOrBelow : \A j \in atOrBelow : j <= i]

\* C19 (as amended): on a non-empty table of real points sorted strictly by
\* SampleNum, searchFromStart(t) returns without error the point before the
\* first point p with p.SampleNum + p.NSamples >= t: the first point when
\* that p is the first point, the last point when there is no such p. When
\* the ends SampleNum + NSamples do not decrease along the table, that is
\* the last point p with p.SampleNum + p.NSamples < t, and the first point
\* when no point satisfies that. On an empty table it returns the
\* no-seek-table error.
C19_LookupByEnd ==
    /\ searched
          => LET ps == seekTable.Points
                 t == last.sampleNum
                 reach == {i \in 1..Len(ps) : endOf(ps[i]) >= t}
                 first == CHOOSE i \in reach : \A j \in reach : i <= j
             IN  /\ last.err = nil
                 /\ last.point = IF reach = {} THEN ps[Len(ps)]
                                 ELSE IF first = 1 THEN ps[1]
                                 ELSE ps[first - 1]
                 /\ endsAscend => last.point = lastEndingBelow(t)
    /\ (last.op = "searchFromStart" /\ ~seekTable.isNil
            /\ Len(seekTable.Points) = 0)
          => last.err = ErrNoSeektable

\* C19 witness: a lookup in a table of three points with ascending ends
\* returned the second point, the last one ending below the sample number.
C19_Witness ==
    /\ searched /\ endsAscend
    /\ Len(seekTable.Points) = 3
    /\ last.err = nil
    /\ last.point = seekTable.Points[2]
    /\ endOf(seekTable.Points[2]) < last.sampleNum
    /\ endOf(seekTable.Points[3]) >= last.sampleNum

\* C19 as stated: on every non-empty table sorted strictly by SampleNum,
\* searchFromStart(t) returns the last point p with
\* p.SampleNum + p.NSamples < t, the first point when no point satisfies
\* that; on an empty table it returns the no-seek-table error.
C19_AsStated ==
    /\ searched
          => /\ last.err = nil
             /\ last.point = lastEndingBelow(last.sampleNum)
    /\ (last.op = "searchFromStart" /\ ~seekTable.isNil
            /\ Len(seekTable.Points) = 0)
          => last.err = ErrNoSeektable

\* C20: on a sorted table of real points whose first point starts at or
\* below t, searchFromStart(t) returns the point with the highest
\* SampleNum <= t: a point that contains t when the table has one, the last
\* point preceding t otherwise.
C20_ContainingPoint ==
    (searched /\ seekTable.Points[1].SampleNum <= last.sampleNum)
    => /\ last.err = nil
       /\ last.point = lastStartingAtOrBelow(last.sampleNum)
       /\ (\E i \in 1..Len(seekTable.Points) :
               /\ seekTable.Points[i].SampleNum <= last.sampleNum
               /\ last.sampleNum < endOf(seekTable.Points[i]))
            => /\ last.point.SampleNum <= last.sampleNum
               /\ last.sampleNum < endOf(last.point)

----------------------------------------------------------------------------
(* Claims about the state of the bit reader, checked under SpecReader.     *)

\* C30 (as amended): in every reachable state of the bit reader in which
\* the partial-byte register holds bits, n > 0, it holds only those bits,
\* x < 2^n, after every path of Read, ReadUnary and ReadRice; with n = 0 the
\* register may keep the bits Read handed out last (x < 2^7), which no
\* operation reads.
C30_RegisterHoldsValidBits ==
    /\ br.n > 0 => br.x < 2^(br.n)
    /\ br.n = 0 => br.x < 2^7

\* C30 witness: a Read, a ReadUnary and a ReadRice each left set bits in
\* the register; here the ReadRice case, with two of its bits set.
C30_Witness ==
    /\ last.op = "ReadRice" /\ last.err = nil
    /\ br.n >= 2 /\ br.x >= 3

\* C30 as stated: in every reachable state x < 2^n, so x = 0 whenever
\* n = 0.
C30_AsStated == br.x < 2^(br.n)

\* C29: in every reachable state of the bit reader, after any sequence of
\* Read, ReadUnary, ReadRice, ReadAligned, Seek and Reset calls, successful
\* or failing, 0 <= pos <= end <= 4096 and 0 <= n <= 7.
C29_BufferBounds ==
    /\ 0 <= br.pos /\ br.pos <= br.end /\ br.end <= readBufSize
    /\ 0 <= br.n /\ br.n <= 7

\* C29 witness: a ReadUnary that ran over a refill of the buffer left seven
\* bits in the register with the buffer used up to its last valid byte.
C29_Witness ==
    /\ last.op = "ReadUnary" /\ last.err = nil
    /\ br.n = 7 /\ br.end = 3 /\ br.pos = br.end

----------------------------------------------------------------------------
(* Claims about the CRC controls, checked under SpecCRC.                   *)

----------------------------------------------------------------------------
(* Claims about the sample counter and the seek table, checked under Spec. *)

\* C28: a Next / ParseNext call that fails in frame parsing, the graceful
\* io.EOF at the end of the stream included, or in the channel-count check
\* leaves samplesDecoded as it was before the call; a frame that parsed and
\* passed the channel check, and only such a frame, adds its BlockSize.
C28_FailedFrameAddsNothing ==
    [][(last'.op \in frameCalls)
       => IF last'.parsed = NoFrame \/ last'.err = ErrChannelMismatch
          THEN samplesDecoded' = samplesDecoded
          ELSE samplesDecoded' = samplesDecoded + last'.parsed.BlockSize]_vars

\* C28 witness: after a frame of two samples was decoded, Next met a frame
\* of the wrong channel count, and the counter stands at two.
C28_Witness ==
    /\ last.op = "Next" /\ last.err = ErrChannelMismatch
    /\ last.parsed.SampleNumber = 2
    /\ samplesDecoded = 2

----------------------------------------------------------------------------
(* Claims about placeholder seek points, checked under SpecPlaceholder.    *)

\* C25: when the seek table contains placeholder points (SampleNum all
\* ones), searchFromStart returns no placeholder point, also when the first
\* entry is a placeholder or when a placeholder's SampleNum + NSamples wraps
\* around modulo 2^64, and Seek never sets samplesDecoded to the all-ones
\* placeholder value.
C25_PlaceholderNeverReturned ==
    /\ (last.op = "searchFromStart" /\ last.err = nil)
          => last.point.SampleNum # AllOnes
    /\ samplesDecoded # AllOnes

\* ---------------------------------------------------------------------
\* Claims about the metadata traversal of the constructors, checked under
\* SpecMeta.
\* ---------------------------------------------------------------------

\* The header the source holds at offset at.
headerAt(at) ==
    [Type |-> src[at + 1] % 128,
     Length |-> src[at + 2] * 65536 + src[at + 3] * 256 + src[at + 4],
     IsLast |-> src[at + 1] >= 128,
     at |-> at]

\* The header fields of a block the stream retained.
headerOf(b) ==
    [Type |-> b.Type, Length |-> b.Length, IsLast |-> b.IsLast, at |-> b.at]

\* The offset after the body of the block with header h.
bodyEnd(h) == h.at + blockHeaderLen + h.Length

\* The blocks of the source from offset at on, up to the first one with
\* IsLast set, after the blocks acc: err is EOF when the source ends before
\* a whole header, ErrInvalidType at a block of type 127, "body" when the
\* source ends inside the body of a block of defined type; whole tells
\* whether the source holds the whole body of the last block.
RECURSIVE walk(_, _)
walk(at, acc) ==
    IF at + blockHeaderLen > Len(src)
    THEN [blocks |-> acc, err |-> EOF, whole |-> FALSE]
    ELSE IF headerAt(at).Type = 127
    THEN [blocks |-> acc, err |-> ErrInvalidType, whole |-> FALSE]
    ELSE IF headerAt(at).Type <= TypePicture
            /\ bodyEnd(headerAt(at)) > Len(src)
    THEN [blocks |-> acc, err |-> "body", whole |-> FALSE]
    ELSE IF headerAt(at).IsLast
    THEN [blocks |-> Append(acc, headerAt(at)), err |-> nil,
          whole |-> bodyEnd(headerAt(at)) <= Len(src)]
    ELSE walk(bodyEnd(headerAt(at)), Append(acc, headerAt(at)))

\* The blocks that follow the StreamInfo block a constructor parsed.
followers ==
    IF headerAt(last.infoAt).IsLast
    THEN [blocks |-> <<>>, err |-> nil, whole |-> TRUE]
    ELSE walk(bodyEnd(headerAt(last.infoAt)), <<>>)

\* The offset after the last block traversed.
metadataEnd ==
    IF followers.blocks = <<>> THEN bodyEnd(headerAt(last.infoAt))
    ELSE bodyEnd(followers.blocks[Len(followers.blocks)])

synthesized == ~seekTable.isNil /\ dataStart = metaLen(FALSE, 0)

C26_TableMadeOnce ==
    [][/\ (seekTable.isNil /\ seekTableSize > 0 /\ last'.op = "Seek")
            => scan'.ran
       /\ (last'.op = "Seek" /\ scan'.ran /\ scan'.err = nil)
            => /\ seekTable.isNil
               /\ ~seekTable'.isNil
               /\ Len(seekTable'.Points) = Len(frames)
       /\ (last'.op = "Seek" /\ last'.err = nil
              /\ dataStart = metaLen(FALSE, 0))
            => \E i \in 1..Len(frames) :
                  /\ last'.ret = frames[i].SampleNumber
                  /\ frames[i].SampleNumber <= last'.arg
                  /\ last'.arg < frames[i].SampleNumber + frames[i].BlockSize
                  /\ BytePos(br') = frames[i].off
                  /\ samplesDecoded' = frames[i].SampleNumber
       /\ ~seekTable.isNil
            => /\ seekTable' = seekTable
               /\ ~scan'.ran]_vars

\* C26 witness: on a stream without a SeekTable block a Seek call succeeded
\* on the table an earlier Seek call made, landing on the second frame.
C26_Witness ==
    /\ last.op = "Seek"
    /\ last.err = nil
    /\ synthesized
    /\ ~scan.ran
    /\ Len(frames) = 2
    /\ last.ret = frames[2].SampleNumber
    /\ BytePos(br) = frames[2].off

====
